---- MODULE Spec2Model ----
(***************************************************************************)
(* Turn-based battle engine: the three-phase round cycle (preparation,     *)
(* battle, resolution), formation-based target selection, soldier-stack    *)
(* damage absorption and end-of-battle detection.                          *)
(*                                                                         *)
(* The engine is a set of pure functions BattleState -> BattleState that   *)
(* throw a GameError on a contract violation.  Each function is an         *)
(* operator returning [err, st]; err = "none" is a normal return.  The     *)
(* variable `state` is the BattleState held by the caller, `lastOp` and    *)
(* `result` are the last call made and its outcome.                        *)
(***************************************************************************)
EXTENDS Integers, Sequences, FiniteSets, TLC

VARIABLES state, lastOp, result, fnIn, fnOut

vars == <<state, lastOp, result, fnIn, fnOut>>

(***************************************************************************)
(* Bounds of the model                                                     *)
(***************************************************************************)
MaxRound == 4
MaxLog == 1
MaxToggles == 1
MaxUnitHp == 4
MaxQty == 3
MaxDamage == 14
MaxStacks == 3
SelectRounds == 2
DuelMaxHp == 3
DuelMaxStat == 3
CalcMaxStat == 10
MaxTimerLog == 2

(***************************************************************************)
(* Program constants                                                       *)
(***************************************************************************)
MIN_DAMAGE == 1
PREPARATION_TIME == 30

Max(a, b) == IF a >= b THEN a ELSE b
Min(a, b) == IF a <= b THEN a ELSE b

(***************************************************************************)
(* Identifiers.  A lead character has unit 0, its stacks have unit 1, 2... *)
(***************************************************************************)
PlayerId == [owner |-> "player", unit |-> 0]
EnemyId == [owner |-> "enemy", unit |-> 0]
NoId == [owner |-> "none", unit |-> 0]
SoldierId(side, n) == [owner |-> side, unit |-> n]

NoSoldier ==
  [id |-> NoId, maxHp |-> 0, currentHp |-> 0, attack |-> 0, defense |-> 0,
   quantity |-> 0, maxQuantity |-> 0]

NoItemUse == [itemId |-> 0, targetId |-> NoId]

(***************************************************************************)
(* Unit model                                                              *)
(***************************************************************************)
isCharacterAlive(character) == character.currentHp > 0

isSoldierAlive(soldier) == soldier.currentHp > 0 /\ soldier.quantity > 0

\* Variant: only the lead character counts.
isCharacterOrSoldiersAlive_leadOnly(character) ==
  isCharacterAlive(character)

isCharacterOrSoldiersAlive(character) ==
  IF isCharacterAlive(character) THEN TRUE
  ELSE IF Len(character.soldiers) > 0
       THEN \E i \in 1..Len(character.soldiers) : isSoldierAlive(character.soldiers[i])
       ELSE FALSE

updateCharacterHp(character, newHp) ==
  [character EXCEPT !.currentHp = Max(0, Min(newHp, character.maxHp))]

\* Variant: the heal is not capped at maxHp.
healCharacter_noCap(character, amount) ==
  [character EXCEPT !.currentHp = character.currentHp + amount]

healCharacter(character, amount) ==
  updateCharacterHp(character, Min(character.maxHp, character.currentHp + amount))

(***************************************************************************)
(* Damage model                                                            *)
(***************************************************************************)
\* Variant: the minimum damage is added to the difference.
calculateDamage_minimumAdded(attacker, defender) ==
  MIN_DAMAGE + Max(0, attacker.attack - defender.defense)

\* Variant: no minimum damage.
calculateDamage_noMinimum(attacker, defender) ==
  Max(0, attacker.attack - defender.defense)

calculateDamage(attacker, defender) ==
  Max(MIN_DAMAGE, attacker.attack - defender.defense)

applyDamage(character, damage) ==
  [character EXCEPT !.currentHp = Max(0, character.currentHp - damage)]

\* Variant: the unit that comes to the front starts at full HP, the rest of
\* the hit is discarded.
applySoldierDamage_remainderDiscarded(soldier, damage) ==
  IF damage < soldier.currentHp
  THEN [soldier EXCEPT !.currentHp = soldier.currentHp - damage]
  ELSE LET excessDamage == damage - soldier.currentHp
           soldiersLost == (excessDamage \div soldier.maxHp) + 1
           newQuantity == Max(0, soldier.quantity - soldiersLost)
       IN IF newQuantity > 0
          THEN [soldier EXCEPT !.quantity = newQuantity,
                               !.currentHp = soldier.maxHp]
          ELSE [soldier EXCEPT !.quantity = 0, !.currentHp = 0]

\* Variant: the front unit that dies is not counted among the units lost.
applySoldierDamage_frontUnitNotCounted(soldier, damage) ==
  IF damage < soldier.currentHp
  THEN [soldier EXCEPT !.currentHp = soldier.currentHp - damage]
  ELSE LET excessDamage == damage - soldier.currentHp
           soldiersLost == excessDamage \div soldier.maxHp
           newQuantity == Max(0, soldier.quantity - soldiersLost)
       IN IF newQuantity > 0
          THEN [soldier EXCEPT !.quantity = newQuantity,
                               !.currentHp = soldier.maxHp - (excessDamage % soldier.maxHp)]
          ELSE [soldier EXCEPT !.quantity = 0, !.currentHp = 0]

\* Variant: an emptied stack keeps the HP computed for its next unit.
applySoldierDamage_emptyKeepsHp(soldier, damage) ==
  IF damage < soldier.currentHp
  THEN [soldier EXCEPT !.currentHp = soldier.currentHp - damage]
  ELSE LET excessDamage == damage - soldier.currentHp
           soldiersLost == (excessDamage \div soldier.maxHp) + 1
           newQuantity == Max(0, soldier.quantity - soldiersLost)
       IN [soldier EXCEPT !.quantity = newQuantity,
                          !.currentHp = soldier.maxHp - (excessDamage % soldier.maxHp)]

applySoldierDamage(soldier, damage) ==
  IF damage < soldier.currentHp
  THEN [soldier EXCEPT !.currentHp = soldier.currentHp - damage]
  ELSE LET excessDamage == damage - soldier.currentHp
           soldiersLost == (excessDamage \div soldier.maxHp) + 1
           newQuantity == Max(0, soldier.quantity - soldiersLost)
       IN IF newQuantity > 0
          THEN [soldier EXCEPT !.quantity = newQuantity,
                               !.currentHp = soldier.maxHp - (excessDamage % soldier.maxHp)]
          ELSE [soldier EXCEPT !.quantity = 0, !.currentHp = 0]

(***************************************************************************)
(* Array helpers (Array.prototype.filter / findIndex / splice)             *)
(***************************************************************************)
findIndex(seq, id) ==
  IF \E i \in 1..Len(seq) : seq[i].id = id
  THEN CHOOSE i \in 1..Len(seq) :
         /\ seq[i].id = id
         /\ \A j \in 1..(i - 1) : seq[j].id # id
  ELSE 0

splice(seq, i) ==
  SubSeq(seq, 1, i - 1) \o SubSeq(seq, i + 1, Len(seq))

aliveOnly(soldiers) == SelectSeq(soldiers, isSoldierAlive)

hasQuantity(soldier) == soldier.quantity > 0

(***************************************************************************)
(* Target resolution                                                       *)
(***************************************************************************)
\* Variant: the formation of the defender is not consulted.
findAttackTarget_anyFormation(defender, defenderSoldiers) ==
  IF /\ Len(defenderSoldiers) > 0
     /\ \E i \in 1..Len(defenderSoldiers) : isSoldierAlive(defenderSoldiers[i])
  THEN [targetType |-> "soldier", soldier |-> aliveOnly(defenderSoldiers)[1]]
  ELSE [targetType |-> "character", soldier |-> NoSoldier]

findAttackTarget(defender, defenderSoldiers) ==
  IF /\ defender.formation = "soldiers-first"
     /\ Len(defenderSoldiers) > 0
     /\ \E i \in 1..Len(defenderSoldiers) : isSoldierAlive(defenderSoldiers[i])
  THEN [targetType |-> "soldier", soldier |-> aliveOnly(defenderSoldiers)[1]]
  ELSE [targetType |-> "character", soldier |-> NoSoldier]

createDamageRecord(attacker, defender, damage, target) ==
  [attackerId |-> attacker.id,
   targetId |-> defender.id,
   damage |-> damage,
   targetType |-> target.targetType,
   soldierId |-> IF target.targetType = "soldier" THEN target.soldier.id ELSE NoId]

(***************************************************************************)
(* One attack of processAttack: resolve the target against the running     *)
(* copy of the defender's stacks, compute the damage, push the record and  *)
(* deplete the running copy.  acc = [records, soldiers].                   *)
(***************************************************************************)
\* Variant: every attacker resolves its target against the stacks as they
\* were at the start of the round.
attackOnce_snapshot(unit, defender, acc) ==
  LET target == findAttackTarget(defender, acc.soldiers)
      damage == calculateDamage(unit,
                  IF target.targetType = "soldier" THEN target.soldier ELSE defender)
      record == createDamageRecord(unit, defender, damage, target)
  IN [records |-> Append(acc.records, record), soldiers |-> acc.soldiers]

attackOnce(unit, defender, acc) ==
  LET target == findAttackTarget(defender, acc.soldiers)
      damage == calculateDamage(unit,
                  IF target.targetType = "soldier" THEN target.soldier ELSE defender)
      record == createDamageRecord(unit, defender, damage, target)
      soldierIndex == findIndex(acc.soldiers, target.soldier.id)
      updatedSoldier == applySoldierDamage(target.soldier, damage)
  IN [records |-> Append(acc.records, record),
      soldiers |->
        IF target.targetType = "soldier" /\ soldierIndex # 0
        THEN IF updatedSoldier.quantity <= 0
             THEN splice(acc.soldiers, soldierIndex)
             ELSE [acc.soldiers EXCEPT ![soldierIndex] = updatedSoldier]
        ELSE acc.soldiers]

RECURSIVE soldiersAttack(_, _, _)
soldiersAttack(aliveSoldiers, defender, acc) ==
  IF aliveSoldiers = <<>> THEN acc
  ELSE soldiersAttack(Tail(aliveSoldiers), defender,
                      attackOnce(Head(aliveSoldiers), defender, acc))

processAttack(attacker, attackerSoldiers, defender, acc) ==
  IF ~isCharacterAlive(attacker) THEN acc
  ELSE attackOnce(attacker, defender,
                  soldiersAttack(aliveOnly(attackerSoldiers), defender, acc))

calculateBattleDamages(s) ==
  LET tempPlayerSoldiers == SelectSeq(s.player.soldiers, hasQuantity)
      tempEnemySoldiers == SelectSeq(s.enemy.soldiers, hasQuantity)
      afterPlayer == processAttack(s.player, s.player.soldiers, s.enemy,
                                   [records |-> <<>>, soldiers |-> tempEnemySoldiers])
      afterEnemy == processAttack(s.enemy, s.enemy.soldiers, s.player,
                                  [records |-> afterPlayer.records,
                                   soldiers |-> tempPlayerSoldiers])
  IN afterEnemy.records

(***************************************************************************)
(* Items                                                                   *)
(***************************************************************************)
canUseItem(item) == item.quantity > 0

\* Variant: the potion is not consumed.
useHealingPotion_notConsumed(item, character) ==
  IF ~canUseItem(item) \/ item.type # "healing_potion" \/ item.heal = 0
  THEN [ok |-> FALSE, item |-> item, character |-> character]
  ELSE [ok |-> TRUE,
        item |-> item,
        character |-> healCharacter(character, item.heal)]

\* null is [ok |-> FALSE]; a heal of 0 stands for an effect without `heal`.
\* Variant: using a potion uses up the whole supply.
useHealingPotion_usedUp(item, character) ==
  IF ~canUseItem(item) \/ item.type # "healing_potion" \/ item.heal = 0
  THEN [ok |-> FALSE, item |-> item, character |-> character]
  ELSE [ok |-> TRUE,
        item |-> [item EXCEPT !.quantity = 0],
        character |-> healCharacter(character, item.heal)]

useHealingPotion(item, character) ==
  IF ~canUseItem(item) \/ item.type # "healing_potion" \/ item.heal = 0
  THEN [ok |-> FALSE, item |-> item, character |-> character]
  ELSE [ok |-> TRUE,
        item |-> [item EXCEPT !.quantity = item.quantity - 1],
        character |-> healCharacter(character, item.heal)]

(***************************************************************************)
(* Results of an engine call                                               *)
(***************************************************************************)
Ok(s) == [err |-> "none", st |-> s]
Throw(e, s) == [err |-> e, st |-> s]

LogEntry(phase, message, round) ==
  [phase |-> phase, message |-> message, round |-> round]

(***************************************************************************)
(* Battle orchestrator                                                     *)
(***************************************************************************)
\* Variant: the player enters the battle at full HP.
initializeBattle_fullHp(player, enemy, playerItems) ==
  [currentRound |-> 1,
   currentPhase |-> "preparation",
   player |-> [player EXCEPT !.currentHp = player.maxHp],
   enemy |-> enemy,
   playerItems |-> playerItems,
   battleLog |-> <<>>,
   pendingActions |-> <<>>,
   isGameOver |-> FALSE,
   winner |-> "none",
   preparationTimer |-> PREPARATION_TIME,
   preparationActionTaken |-> FALSE,
   pendingItemUse |-> NoItemUse,
   calculatedDamages |-> <<>>]

initializeBattle(player, enemy, playerItems) ==
  [currentRound |-> 1,
   currentPhase |-> "preparation",
   player |-> player,
   enemy |-> enemy,
   playerItems |-> playerItems,
   battleLog |-> <<>>,
   pendingActions |-> <<>>,
   isGameOver |-> FALSE,
   winner |-> "none",
   preparationTimer |-> PREPARATION_TIME,
   preparationActionTaken |-> FALSE,
   pendingItemUse |-> NoItemUse,
   calculatedDamages |-> <<>>]

\* Variant: the countdown is not reset.
startPreparationPhase_noTimerReset(s) ==
  IF s.isGameOver THEN Throw("BATTLE_ALREADY_ENDED", s)
  ELSE Ok([s EXCEPT
            !.currentPhase = "preparation",
            !.preparationActionTaken = FALSE,
            !.battleLog = Append(@, LogEntry("preparation", "preparation-phase", s.currentRound))])

startPreparationPhase(s) ==
  IF s.isGameOver THEN Throw("BATTLE_ALREADY_ENDED", s)
  ELSE Ok([s EXCEPT
            !.currentPhase = "preparation",
            !.preparationTimer = PREPARATION_TIME,
            !.preparationActionTaken = FALSE,
            !.battleLog = Append(@, LogEntry("preparation", "preparation-phase", s.currentRound))])

\* Variant: the new round starts with a log of its own.
nextRound_freshLog(s) ==
  IF s.currentPhase # "resolution" THEN Throw("INVALID_PHASE", s)
  ELSE IF s.isGameOver THEN Throw("BATTLE_ALREADY_ENDED", s)
  ELSE Ok([s EXCEPT
            !.currentRound = s.currentRound + 1,
            !.currentPhase = "preparation",
            !.preparationTimer = PREPARATION_TIME,
            !.preparationActionTaken = FALSE,
            !.battleLog = <<LogEntry("resolution", "round-end", s.currentRound)>>])

\* Variant: the countdown and the action flag are not reset.
nextRound_noTimerReset(s) ==
  IF s.currentPhase # "resolution" THEN Throw("INVALID_PHASE", s)
  ELSE IF s.isGameOver THEN Throw("BATTLE_ALREADY_ENDED", s)
  ELSE Ok([s EXCEPT
            !.currentRound = s.currentRound + 1,
            !.currentPhase = "preparation",
            !.battleLog = Append(@, LogEntry("resolution", "round-end", s.currentRound))])

\* Variant: the round number is not advanced.
nextRound_sameRound(s) ==
  IF s.currentPhase # "resolution" THEN Throw("INVALID_PHASE", s)
  ELSE IF s.isGameOver THEN Throw("BATTLE_ALREADY_ENDED", s)
  ELSE Ok([s EXCEPT
            !.currentRound = s.currentRound,
            !.currentPhase = "preparation",
            !.preparationTimer = PREPARATION_TIME,
            !.preparationActionTaken = FALSE,
            !.battleLog = Append(@, LogEntry("resolution", "round-end", s.currentRound))])

nextRound(s) ==
  IF s.currentPhase # "resolution" THEN Throw("INVALID_PHASE", s)
  ELSE IF s.isGameOver THEN Throw("BATTLE_ALREADY_ENDED", s)
  ELSE Ok([s EXCEPT
            !.currentRound = s.currentRound + 1,
            !.currentPhase = "preparation",
            !.preparationTimer = PREPARATION_TIME,
            !.preparationActionTaken = FALSE,
            !.battleLog = Append(@, LogEntry("resolution", "round-end", s.currentRound))])

\* acc = [target, log]
applyDamageToTarget(target, damage, acc, s) ==
  [target |-> applyDamage(target, damage),
   log |-> Append(acc.log, LogEntry("resolution", "damage", s.currentRound))]

\* Variant: damage beyond the stack's remaining pool is passed on to the lead.
applyDamageToSoldierTarget_spillsToLead(target, soldierId, damage, acc, s) ==
  LET soldierIndex == findIndex(target.soldiers, soldierId)
      originalSoldier == target.soldiers[soldierIndex]
      updatedSoldier == applySoldierDamage(originalSoldier, damage)
      pool == originalSoldier.currentHp
                + (originalSoldier.quantity - 1) * originalSoldier.maxHp
  IN IF soldierIndex = 0 THEN [target |-> target, log |-> acc.log]
     ELSE [target |-> [target EXCEPT
                         !.soldiers[soldierIndex] = updatedSoldier,
                         !.currentHp = Max(0, @ - Max(0, damage - pool))],
           log |-> Append(acc.log, LogEntry("resolution", "soldier-damage",
                                            s.currentRound))]

applyDamageToSoldierTarget(target, soldierId, damage, acc, s) ==
  LET soldierIndex == findIndex(target.soldiers, soldierId)
      originalSoldier == target.soldiers[soldierIndex]
      updatedSoldier == applySoldierDamage(originalSoldier, damage)
      lostSoldiers == originalSoldier.quantity - updatedSoldier.quantity
  IN IF soldierIndex = 0 THEN [target |-> target, log |-> acc.log]
     ELSE [target |-> [target EXCEPT !.soldiers[soldierIndex] = updatedSoldier],
           log |-> Append(acc.log,
                     LogEntry("resolution",
                              IF lostSoldiers > 0 THEN "soldier-damage-lost"
                                                  ELSE "soldier-damage",
                              s.currentRound))]

applyDamageRecordToTarget(target, damageRecord, acc, s) ==
  IF damageRecord.targetType = "character"
  THEN applyDamageToTarget(target, damageRecord.damage, acc, s)
  ELSE IF damageRecord.targetType = "soldier" /\ damageRecord.soldierId # NoId
  THEN applyDamageToSoldierTarget(target, damageRecord.soldierId,
                                  damageRecord.damage, acc, s)
  ELSE [target |-> target, log |-> acc.log]

\* The loop of startResolutionPhase over state.calculatedDamages.
\* cur = [player, enemy, log]
RECURSIVE applyRecords(_, _, _)
applyRecords(records, cur, s) ==
  IF records = <<>> THEN cur
  ELSE LET damageRecord == Head(records)
           isPlayerTarget == damageRecord.targetId = s.player.id
           target == IF isPlayerTarget THEN cur.player ELSE cur.enemy
           res == applyDamageRecordToTarget(target, damageRecord,
                                            [target |-> target, log |-> cur.log], s)
       IN applyRecords(Tail(records),
                       [player |-> IF isPlayerTarget THEN res.target ELSE cur.player,
                        enemy |-> IF isPlayerTarget THEN cur.enemy ELSE res.target,
                        log |-> res.log],
                       s)

\* Variant: the battle ends only when exactly one side is alive.
decideWinner_exactlyOneAlive(isPlayerAlive, isEnemyAlive) ==
  IF isPlayerAlive # isEnemyAlive
  THEN [isGameOver |-> TRUE, winner |-> IF isPlayerAlive THEN "player" ELSE "enemy"]
  ELSE [isGameOver |-> FALSE, winner |-> "none"]

\* Variant: the battle ends only when the player's side is dead.
decideWinner_playerOnly(isPlayerAlive, isEnemyAlive) ==
  IF ~isPlayerAlive
  THEN [isGameOver |-> TRUE, winner |-> "enemy"]
  ELSE [isGameOver |-> FALSE, winner |-> "none"]

decideWinner(isPlayerAlive, isEnemyAlive) ==
  IF ~isPlayerAlive \/ ~isEnemyAlive
  THEN [isGameOver |-> TRUE, winner |-> IF isPlayerAlive THEN "player" ELSE "enemy"]
  ELSE [isGameOver |-> FALSE, winner |-> "none"]

\* Variant: the records of the round are applied a second time.
startResolutionPhase_appliesTwice(s) ==
  IF s.currentPhase # "battle" THEN Throw("INVALID_PHASE", s)
  ELSE
    LET applied == applyRecords(s.calculatedDamages \o s.calculatedDamages,
                                [player |-> s.player, enemy |-> s.enemy,
                                 log |-> s.battleLog], s)
        isPlayerAlive == isCharacterOrSoldiersAlive(applied.player)
        isEnemyAlive == isCharacterOrSoldiersAlive(applied.enemy)
        outcome == decideWinner(isPlayerAlive, isEnemyAlive)
        newLog == IF outcome.isGameOver
                  THEN Append(applied.log,
                              LogEntry("resolution", "battle-over", s.currentRound))
                  ELSE applied.log
        resolutionState == [s EXCEPT
                              !.player = applied.player,
                              !.enemy = applied.enemy,
                              !.battleLog = newLog,
                              !.currentPhase = "resolution",
                              !.pendingActions = <<>>,
                              !.isGameOver = outcome.isGameOver,
                              !.winner = outcome.winner]
    IN IF outcome.isGameOver THEN Ok(resolutionState) ELSE nextRound(resolutionState)

\* Variant: the round stops in phase resolution and waits for nextRound.
startResolutionPhase_stopsAtResolution(s) ==
  IF s.currentPhase # "battle" THEN Throw("INVALID_PHASE", s)
  ELSE
    LET applied == applyRecords(s.calculatedDamages,
                                [player |-> s.player, enemy |-> s.enemy,
                                 log |-> s.battleLog], s)
        isPlayerAlive == isCharacterOrSoldiersAlive(applied.player)
        isEnemyAlive == isCharacterOrSoldiersAlive(applied.enemy)
        outcome == decideWinner(isPlayerAlive, isEnemyAlive)
        newLog == IF outcome.isGameOver
                  THEN Append(applied.log,
                              LogEntry("resolution", "battle-over", s.currentRound))
                  ELSE applied.log
        resolutionState == [s EXCEPT
                              !.player = applied.player,
                              !.enemy = applied.enemy,
                              !.battleLog = newLog,
                              !.currentPhase = "resolution",
                              !.pendingActions = <<>>,
                              !.isGameOver = outcome.isGameOver,
                              !.winner = outcome.winner]
    IN Ok(resolutionState)

startResolutionPhase(s) ==
  IF s.currentPhase # "battle" THEN Throw("INVALID_PHASE", s)
  ELSE
    LET applied == applyRecords(s.calculatedDamages,
                                [player |-> s.player, enemy |-> s.enemy,
                                 log |-> s.battleLog], s)
        isPlayerAlive == isCharacterOrSoldiersAlive(applied.player)
        isEnemyAlive == isCharacterOrSoldiersAlive(applied.enemy)
        outcome == decideWinner(isPlayerAlive, isEnemyAlive)
        newLog == IF outcome.isGameOver
                  THEN Append(applied.log,
                              LogEntry("resolution", "battle-over", s.currentRound))
                  ELSE applied.log
        resolutionState == [s EXCEPT
                              !.player = applied.player,
                              !.enemy = applied.enemy,
                              !.battleLog = newLog,
                              !.currentPhase = "resolution",
                              !.pendingActions = <<>>,
                              !.isGameOver = outcome.isGameOver,
                              !.winner = outcome.winner]
    IN IF outcome.isGameOver THEN Ok(resolutionState) ELSE nextRound(resolutionState)

\* Variant: an item can be selected while another selection is pending.
selectItem_noPendingCheck(s, itemId) ==
  IF s.currentPhase # "preparation" THEN Throw("INVALID_PHASE", s)
  ELSE IF s.isGameOver THEN Throw("BATTLE_ALREADY_ENDED", s)
  ELSE LET itemIndex == findIndex(s.playerItems, itemId)
           item == s.playerItems[itemIndex]
       IN IF itemIndex = 0 THEN Throw("INVALID_ACTION", s)
          ELSE IF ~canUseItem(item) THEN Throw("INSUFFICIENT_ITEMS", s)
          ELSE Ok([s EXCEPT
                    !.pendingItemUse = [itemId |-> item.id, targetId |-> s.player.id],
                    !.battleLog = Append(@, LogEntry("preparation", "item-selected",
                                                     s.currentRound))])

selectItem(s, itemId) ==
  IF s.currentPhase # "preparation" THEN Throw("INVALID_PHASE", s)
  ELSE IF s.isGameOver THEN Throw("BATTLE_ALREADY_ENDED", s)
  ELSE IF s.pendingItemUse # NoItemUse THEN Throw("INVALID_ACTION", s)
  ELSE LET itemIndex == findIndex(s.playerItems, itemId)
           item == s.playerItems[itemIndex]
       IN IF itemIndex = 0 THEN Throw("INVALID_ACTION", s)
          ELSE IF ~canUseItem(item) THEN Throw("INSUFFICIENT_ITEMS", s)
          ELSE Ok([s EXCEPT
                    !.pendingItemUse = [itemId |-> item.id, targetId |-> s.player.id],
                    !.battleLog = Append(@, LogEntry("preparation", "item-selected",
                                                     s.currentRound))])

\* The stack is projected as a character-shaped value, healed, and its HP
\* written back into the first stack of the player.
soldierAsCharacter(soldier) ==
  [id |-> soldier.id, maxHp |-> soldier.maxHp, currentHp |-> soldier.currentHp,
   attack |-> soldier.attack, defense |-> soldier.defense]

executePendingItemUse(s) ==
  IF s.isGameOver THEN Throw("BATTLE_ALREADY_ENDED", s)
  ELSE IF s.currentPhase # "battle" THEN Throw("INVALID_PHASE", s)
  ELSE IF s.pendingItemUse = NoItemUse THEN Ok(s)
  ELSE
    LET itemId == s.pendingItemUse.itemId
        targetId == s.pendingItemUse.targetId
        itemIndex == findIndex(s.playerItems, itemId)
        item == s.playerItems[itemIndex]
        firstSoldier == s.player.soldiers[1]
        soldierResult == useHealingPotion(item, soldierAsCharacter(firstSoldier))
        target == IF targetId = s.player.id THEN s.player ELSE s.enemy
        targetResult == useHealingPotion(item, target)
    IN IF itemIndex = 0 THEN Throw("INVALID_ACTION", s)
       ELSE IF ~canUseItem(item) THEN Throw("INSUFFICIENT_ITEMS", s)
       ELSE IF Len(s.player.soldiers) > 0 /\ isSoldierAlive(firstSoldier)
       THEN IF ~soldierResult.ok THEN Throw("INVALID_ACTION", s)
            ELSE Ok([s EXCEPT
                      !.player.soldiers[1].currentHp = soldierResult.character.currentHp,
                      !.playerItems[itemIndex] = soldierResult.item,
                      !.pendingItemUse = NoItemUse,
                      !.battleLog = Append(@, LogEntry("battle", "item-used-on-soldier",
                                                       s.currentRound))])
       ELSE IF targetId # s.player.id /\ targetId # s.enemy.id
       THEN Throw("INVALID_ACTION", s)
       ELSE IF ~targetResult.ok THEN Throw("INVALID_ACTION", s)
       ELSE Ok([s EXCEPT
                 !.player = IF targetResult.character.id = s.player.id
                            THEN targetResult.character ELSE s.player,
                 !.enemy = IF targetResult.character.id = s.player.id
                           THEN s.enemy ELSE targetResult.character,
                 !.playerItems[itemIndex] = targetResult.item,
                 !.pendingItemUse = NoItemUse,
                 !.battleLog = Append(@, LogEntry("battle", "item-used", s.currentRound))])

\* Variant: a player with a dead lead and a living stack may enter.
enterBattle_anyUnitAlive(s) ==
  IF s.currentPhase # "preparation" THEN Throw("INVALID_PHASE", s)
  ELSE IF s.isGameOver THEN Throw("BATTLE_ALREADY_ENDED", s)
  ELSE IF ~isCharacterOrSoldiersAlive(s.player) THEN Throw("CHARACTER_DEAD", s)
  ELSE Ok([s EXCEPT
            !.battleLog = Append(@, LogEntry("preparation", "enter-battle",
                                             s.currentRound))])

enterBattle(s) ==
  IF s.currentPhase # "preparation" THEN Throw("INVALID_PHASE", s)
  ELSE IF s.isGameOver THEN Throw("BATTLE_ALREADY_ENDED", s)
  ELSE IF ~isCharacterAlive(s.player) THEN Throw("CHARACTER_DEAD", s)
  ELSE Ok([s EXCEPT
            !.battleLog = Append(@, LogEntry("preparation", "enter-battle",
                                             s.currentRound))])

\* The enemy's turn: in the preparation phase the enemy announces that it
\* enters the battle; in the battle phase nothing is recorded.
processEnemyTurn(s) ==
  IF s.currentPhase # "preparation" /\ s.currentPhase # "battle"
  THEN Throw("INVALID_PHASE", s)
  ELSE IF s.isGameOver THEN Throw("BATTLE_ALREADY_ENDED", s)
  ELSE IF ~isCharacterAlive(s.enemy) THEN Throw("CHARACTER_DEAD", s)
  ELSE Ok([s EXCEPT
            !.battleLog = IF s.currentPhase = "preparation"
                          THEN Append(@, LogEntry("preparation", "enemy-enters-battle",
                                                  s.currentRound))
                          ELSE @])

attack(s, targetId) ==
  IF s.currentPhase # "battle" THEN Throw("INVALID_PHASE", s)
  ELSE IF s.isGameOver THEN Throw("BATTLE_ALREADY_ENDED", s)
  ELSE IF ~isCharacterAlive(s.player) THEN Throw("CHARACTER_DEAD", s)
  ELSE IF targetId # s.player.id /\ targetId # s.enemy.id
  THEN Throw("INVALID_ACTION", s)
  ELSE IF ~isCharacterAlive(IF targetId = s.player.id THEN s.player ELSE s.enemy)
  THEN Throw("INVALID_ACTION", s)
  ELSE Ok([s EXCEPT
            !.pendingActions = Append(@, [attackerId |-> s.player.id,
                                          targetId |-> targetId]),
            !.battleLog = Append(@, LogEntry("battle", "player-prepares-attack",
                                             s.currentRound))])

\* Variant: the notice is written whenever the countdown runs out.
decreasePreparationTimer_noticeIgnoresFlag(s) ==
  IF s.currentPhase # "preparation" THEN Throw("INVALID_PHASE", s)
  ELSE IF s.isGameOver THEN Throw("BATTLE_ALREADY_ENDED", s)
  ELSE LET newTimer == (IF s.preparationTimer = 0 THEN PREPARATION_TIME
                                                  ELSE s.preparationTimer) - 1
       IN IF newTimer <= 0
          THEN Ok([s EXCEPT
                    !.preparationTimer = 0,
                    !.battleLog = Append(@, LogEntry("preparation", "timer-expired",
                                                     s.currentRound))])
          ELSE Ok([s EXCEPT !.preparationTimer = newTimer])

decreasePreparationTimer(s) ==
  IF s.currentPhase # "preparation" THEN Throw("INVALID_PHASE", s)
  ELSE IF s.isGameOver THEN Throw("BATTLE_ALREADY_ENDED", s)
  ELSE LET newTimer == (IF s.preparationTimer = 0 THEN PREPARATION_TIME
                                                  ELSE s.preparationTimer) - 1
       IN IF newTimer <= 0 /\ ~s.preparationActionTaken
          THEN Ok([s EXCEPT
                    !.preparationTimer = 0,
                    !.battleLog = Append(@, LogEntry("preparation", "timer-expired",
                                                     s.currentRound))])
          ELSE Ok([s EXCEPT !.preparationTimer = newTimer])

markPreparationActionTaken(s) ==
  IF s.currentPhase # "preparation" THEN Throw("INVALID_PHASE", s)
  ELSE IF s.isGameOver THEN Throw("BATTLE_ALREADY_ENDED", s)
  ELSE Ok([s EXCEPT !.preparationActionTaken = TRUE])

executeEnemyAttack(s) ==
  LET aliveSoldiers == aliveOnly(s.enemy.soldiers)
      enemyAction == [attackerId |-> s.enemy.id, targetId |-> s.player.id]
      withEnemy == Append(s.pendingActions, enemyAction)
      enemyLog == Append(s.battleLog,
                         LogEntry("battle", "enemy-auto-attack", s.currentRound))
  IN IF Len(s.enemy.soldiers) > 0 /\ Len(aliveSoldiers) > 0
     THEN [s EXCEPT
            !.pendingActions = Append(withEnemy,
                                 [attackerId |-> aliveSoldiers[1].id,
                                  targetId |-> s.player.id]),
            !.battleLog = Append(enemyLog,
                            LogEntry("battle", "enemy-soldier-attack", s.currentRound))]
     ELSE [s EXCEPT !.pendingActions = withEnemy, !.battleLog = enemyLog]

\* The log lines of autoExecuteBattlePhase, one per record with damage > 0.
RECURSIVE damageLog(_, _, _)
damageLog(records, log, round) ==
  IF records = <<>> THEN log
  ELSE LET damageRecord == Head(records)
       IN damageLog(Tail(records),
            IF damageRecord.damage > 0
            THEN Append(log, LogEntry("battle",
                                      IF damageRecord.targetType = "character"
                                      THEN "will-take-damage"
                                      ELSE "soldier-will-take-damage", round))
            ELSE log,
            round)

\* The player's branch of autoExecuteBattlePhase when no item is pending: the
\* lead's action and the first alive stack's action are queued.  The log lines
\* written here are dropped when the log is re-read after executeEnemyAttack.
queuePlayerActions(s) ==
  LET aliveSoldiers == aliveOnly(s.player.soldiers)
      withPlayer == Append(s.pendingActions,
                           [attackerId |-> s.player.id, targetId |-> s.enemy.id])
  IN IF Len(s.player.soldiers) > 0 /\ Len(aliveSoldiers) > 0
     THEN [s EXCEPT !.pendingActions =
             Append(withPlayer, [attackerId |-> aliveSoldiers[1].id,
                                 targetId |-> s.enemy.id])]
     ELSE [s EXCEPT !.pendingActions = withPlayer]

\* Variant: the damage of the round is calculated and applied to the HP the
\* round began with, and the pending item heals afterwards.
autoExecuteBattlePhase_healAfterDamage(s) ==
  IF s.isGameOver THEN Throw("BATTLE_ALREADY_ENDED", s)
  ELSE IF s.currentPhase # "battle" THEN Throw("INVALID_PHASE", s)
  ELSE
    LET itemResult == executePendingItemUse(s)
        afterPlayer == IF s.pendingItemUse # NoItemUse
                       THEN [itemResult.st EXCEPT !.player = s.player]
                       ELSE queuePlayerActions(s)
        afterEnemy == executeEnemyAttack(afterPlayer)
        damageRecords == calculateBattleDamages(afterEnemy)
        newLog == damageLog(damageRecords, afterEnemy.battleLog, s.currentRound)
        res == startResolutionPhase([afterEnemy EXCEPT
                                       !.calculatedDamages = damageRecords,
                                       !.battleLog = newLog])
        late == executePendingItemUse([res.st EXCEPT
                                         !.currentPhase = "battle",
                                         !.isGameOver = FALSE,
                                         !.pendingItemUse = s.pendingItemUse,
                                         !.playerItems = s.playerItems])
    IN IF s.pendingItemUse # NoItemUse /\ itemResult.err # "none"
       THEN Throw(itemResult.err, s)
       ELSE IF s.pendingItemUse # NoItemUse /\ late.err = "none"
       THEN [res EXCEPT !.st.player = late.st.player]
       ELSE res

autoExecuteBattlePhase(s) ==
  IF s.isGameOver THEN Throw("BATTLE_ALREADY_ENDED", s)
  ELSE IF s.currentPhase # "battle" THEN Throw("INVALID_PHASE", s)
  ELSE
    LET itemResult == executePendingItemUse(s)
        afterPlayer == IF s.pendingItemUse # NoItemUse THEN itemResult.st
                       ELSE queuePlayerActions(s)
        afterEnemy == executeEnemyAttack(afterPlayer)
        damageRecords == calculateBattleDamages(afterEnemy)
        newLog == damageLog(damageRecords, afterEnemy.battleLog, s.currentRound)
    IN IF s.pendingItemUse # NoItemUse /\ itemResult.err # "none"
       THEN Throw(itemResult.err, s)
       ELSE startResolutionPhase([afterEnemy EXCEPT
                                    !.calculatedDamages = damageRecords,
                                    !.battleLog = newLog])

\* Variant: a battle phase that fails leaves the state it had got to.
startBattlePhase_keepsPartialState(s) ==
  IF s.currentPhase # "preparation" THEN Throw("INVALID_PHASE", s)
  ELSE LET battleState == [s EXCEPT
                             !.currentPhase = "battle",
                             !.battleLog = Append(@, LogEntry("battle", "battle-phase",
                                                              s.currentRound))]
           res == autoExecuteBattlePhase(battleState)
       IN IF res.err # "none" THEN Throw(res.err, battleState) ELSE res

startBattlePhase(s) ==
  IF s.currentPhase # "preparation" THEN Throw("INVALID_PHASE", s)
  ELSE LET battleState == [s EXCEPT
                             !.currentPhase = "battle",
                             !.battleLog = Append(@, LogEntry("battle", "battle-phase",
                                                              s.currentRound))]
           res == autoExecuteBattlePhase(battleState)
       IN IF res.err # "none" THEN Throw(res.err, s) ELSE res

autoProceedToNextRound(s) ==
  IF s.currentPhase # "resolution" THEN Throw("INVALID_PHASE", s)
  ELSE IF s.isGameOver THEN Throw("BATTLE_ALREADY_ENDED", s)
  ELSE Ok([s EXCEPT
            !.currentRound = s.currentRound + 1,
            !.currentPhase = "preparation",
            !.preparationTimer = PREPARATION_TIME,
            !.preparationActionTaken = FALSE])

\* Variant: the formation is always set to soldiers-first.
toggleFormation_alwaysSoldiersFirst(s) ==
  IF s.isGameOver THEN Throw("BATTLE_ALREADY_ENDED", s)
  ELSE Ok([s EXCEPT
            !.player.formation = "soldiers-first",
            !.battleLog = Append(@, LogEntry("preparation", "formation-toggled",
                                             s.currentRound))])

\* Variant: the formation can be switched after the battle has ended.
toggleFormation_noGameOverCheck(s) ==
  LET formation == IF s.player.formation = "soldiers-first"
                   THEN "player-first" ELSE "soldiers-first"
  IN Ok([s EXCEPT
          !.player.formation = formation,
          !.battleLog = Append(@, LogEntry("preparation", "formation-toggled",
                                           s.currentRound))])

toggleFormation(s) ==
  IF s.isGameOver THEN Throw("BATTLE_ALREADY_ENDED", s)
  ELSE LET formation == IF s.player.formation = "soldiers-first"
                        THEN "player-first" ELSE "soldiers-first"
       IN Ok([s EXCEPT
               !.player.formation = formation,
               !.battleLog = Append(@, LogEntry("preparation", "formation-toggled",
                                                s.currentRound))])

\* Variant: the winner of the finished battle is kept.
resetBattle_keepsWinner(initialState) ==
  [initialState EXCEPT
     !.currentRound = 1,
     !.currentPhase = "preparation",
     !.battleLog = <<LogEntry("preparation", "battle-restarted", 1)>>,
     !.pendingActions = <<>>,
     !.isGameOver = FALSE,
     !.preparationTimer = PREPARATION_TIME,
     !.preparationActionTaken = FALSE,
     !.pendingItemUse = NoItemUse,
     !.calculatedDamages = <<>>]

resetBattle(initialState) ==
  [initialState EXCEPT
     !.currentRound = 1,
     !.currentPhase = "preparation",
     !.battleLog = <<LogEntry("preparation", "battle-restarted", 1)>>,
     !.pendingActions = <<>>,
     !.isGameOver = FALSE,
     !.winner = "none",
     !.preparationTimer = PREPARATION_TIME,
     !.preparationActionTaken = FALSE,
     !.pendingItemUse = NoItemUse,
     !.calculatedDamages = <<>>]

(***************************************************************************)
(* The value of the argument of a call after the call has returned.  The   *)
(* operations build their result from copies, except that the stack branch *)
(* of executePendingItemUse copies the player object only one level deep   *)
(* and stores the healed stack into player.soldiers, the array the         *)
(* argument and the result then share.                                     *)
(***************************************************************************)
inputAfterExecutePendingItemUse(s) ==
  LET res == executePendingItemUse(s)
  IN IF /\ res.err = "none"
        /\ s.pendingItemUse # NoItemUse
        /\ Len(s.player.soldiers) > 0
        /\ isSoldierAlive(s.player.soldiers[1])
     THEN [s EXCEPT !.player.soldiers = res.st.player.soldiers]
     ELSE s

\* autoExecuteBattlePhase passes a one-level copy of its argument on.
inputAfterAutoExecuteBattlePhase(s) ==
  IF s.isGameOver \/ s.currentPhase # "battle" \/ s.pendingItemUse = NoItemUse
  THEN s
  ELSE [s EXCEPT !.player.soldiers = inputAfterExecutePendingItemUse(s).player.soldiers]

\* startBattlePhase passes a one-level copy with the phase and the log replaced.
inputAfterStartBattlePhase(s) ==
  IF s.currentPhase # "preparation" THEN s
  ELSE LET battleState == [s EXCEPT
                             !.currentPhase = "battle",
                             !.battleLog = Append(@, LogEntry("battle", "battle-phase",
                                                              s.currentRound))]
       IN [s EXCEPT !.player.soldiers =
                      inputAfterAutoExecuteBattlePhase(battleState).player.soldiers]

inputAfter(op, s) ==
  CASE op = "executePendingItemUse" -> inputAfterExecutePendingItemUse(s)
    [] op = "autoExecuteBattlePhase" -> inputAfterAutoExecuteBattlePhase(s)
    [] op = "startBattlePhase" -> inputAfterStartBattlePhase(s)
    [] OTHER -> s

(***************************************************************************)
(* Inputs of initializeBattle: the characters, stacks and items a battle   *)
(* is created with.                                                        *)
(***************************************************************************)
Formations == {"soldiers-first", "player-first"}

createSoldier(id, maxHp, attackValue, defense, quantity, maxQuantity) ==
  [id |-> id, maxHp |-> maxHp, currentHp |-> maxHp, attack |-> attackValue,
   defense |-> defense, quantity |-> quantity, maxQuantity |-> maxQuantity]

\* A value of the Character type, field by field, at full HP.
Character(id, maxHp, attackValue, defense, formation, soldiers) ==
  [id |-> id, maxHp |-> maxHp, currentHp |-> maxHp, attack |-> attackValue,
   defense |-> defense, formation |-> formation, soldiers |-> soldiers]

StackSets(side) ==
  { <<>>,
    << createSoldier(SoldierId(side, 1), 2, 2, 0, 2, 3) >>,
    << createSoldier(SoldierId(side, 1), 2, 2, 0, 1, 3),
       createSoldier(SoldierId(side, 2), 3, 1, 1, 2, 2) >> }

\* <<maxHp, attack, defense>> of a lead character
PlayerStats == { <<5, 3, 1>>, <<3, 1, 4>> }
EnemyStats == { <<4, 3, 1>>, <<3, 5, 0>> }

ItemSets ==
  { << [id |-> 1, type |-> "healing_potion", heal |-> 2, quantity |-> 1] >>,
    << [id |-> 1, type |-> "healing_potion", heal |-> 0, quantity |-> 1],
       [id |-> 2, type |-> "healing_potion", heal |-> 3, quantity |-> 0] >> }

ItemIds == {1, 2, 3}

(***************************************************************************)
(* The battle the program builds at start-up and on every restart.         *)
(***************************************************************************)
DEFAULT_PLAYER_CONFIG ==
  [type |-> "player", maxHp |-> 100, attack |-> 20, defense |-> 5,
   formation |-> "player-first"]

DEFAULT_ENEMY_CONFIG ==
  [type |-> "enemy", maxHp |-> 80, attack |-> 15, defense |-> 3,
   formation |-> "soldiers-first"]

DEFAULT_SOLDIER_CONFIG ==
  [maxHp |-> 30, attack |-> 10, defense |-> 2, quantity |-> 3, maxQuantity |-> 5]

DEFAULT_ITEMS == << [type |-> "healing_potion", heal |-> 30, quantity |-> 5] >>

\* Items are numbered by their position in the configuration, from 0.
initializePlayerItems(itemConfigs) ==
  [index \in 1..Len(itemConfigs) |->
     [id |-> index - 1, type |-> itemConfigs[index].type,
      heal |-> itemConfigs[index].heal, quantity |-> itemConfigs[index].quantity]]

\* A lead built from a configuration starts at full HP; a player or an enemy
\* always gets one default stack, whatever stacks the configuration names.
createCharacter(config, id) ==
  Character(id, config.maxHp, config.attack, config.defense, config.formation,
            IF config.type = "player" \/ config.type = "enemy"
            THEN << createSoldier(SoldierId(id.owner, 1),
                                  DEFAULT_SOLDIER_CONFIG.maxHp,
                                  DEFAULT_SOLDIER_CONFIG.attack,
                                  DEFAULT_SOLDIER_CONFIG.defense,
                                  DEFAULT_SOLDIER_CONFIG.quantity,
                                  DEFAULT_SOLDIER_CONFIG.maxQuantity) >>
            ELSE IF "soldiers" \in DOMAIN config THEN config.soldiers
            ELSE <<>>)

createInitialGameState ==
  initializeBattle(createCharacter(DEFAULT_PLAYER_CONFIG, PlayerId),
                   createCharacter(DEFAULT_ENEMY_CONFIG, EnemyId),
                   initializePlayerItems(DEFAULT_ITEMS))

DefaultItemIds == { createInitialGameState.playerItems[i].id :
                      i \in 1..Len(createInitialGameState.playerItems) }

Players ==
  { Character(PlayerId, st[1], st[2], st[3], f, ss) :
      st \in PlayerStats, f \in Formations, ss \in StackSets("player") }

Enemies ==
  { Character(EnemyId, st[1], st[2], st[3], f, ss) :
      st \in EnemyStats, f \in Formations, ss \in StackSets("enemy") }

IdleSoldier == NoSoldier
IdleInput == [soldier |-> NoSoldier, damage |-> 0]

\* The few battles the complete engine is explored on.
FewPlayers ==
  { p \in Players : p.maxHp = 5 /\ Len(p.soldiers) <= 1 /\ p.formation = "player-first" }
FewEnemies ==
  { e \in Enemies : e.maxHp = 4 /\ Len(e.soldiers) = 1 /\ e.formation = "soldiers-first" }

(***************************************************************************)
(* The caller: one action per engine operation.  A call that throws leaves *)
(* the caller's state as it was and records the error.                     *)
(***************************************************************************)
Init ==
  /\ \E p \in FewPlayers, e \in FewEnemies, items \in ItemSets :
       state = initializeBattle(p, e, items)
  /\ lastOp = "initializeBattle"
  /\ result = "none"
  /\ fnIn = IdleInput
  /\ fnOut = IdleSoldier

InitBattle ==
  /\ \E p \in Players, e \in Enemies, items \in ItemSets :
       state = initializeBattle(p, e, items)
  /\ lastOp = "initializeBattle"
  /\ result = "none"
  /\ fnIn = IdleInput
  /\ fnOut = IdleSoldier

Call(op, res) ==
  /\ lastOp' = op
  /\ result' = res.err
  /\ state' = res.st
  /\ UNCHANGED <<fnIn, fnOut>>

\* Bounds on the calls made outside the battle phase.
LogRoom(s) == Len(s.battleLog) < MaxLog

Toggles(s) ==
  Len(SelectSeq(s.battleLog, LAMBDA entry : entry.message = "formation-toggled"))

StartPreparationPhase ==
  /\ LogRoom(state) \/ state.isGameOver
  /\ Call("startPreparationPhase", startPreparationPhase(state))

StartBattlePhase ==
  /\ state.currentRound <= MaxRound
  /\ Call("startBattlePhase", startBattlePhase(state))

StartResolutionPhase ==
  Call("startResolutionPhase", startResolutionPhase(state))

NextRound ==
  Call("nextRound", nextRound(state))

AutoProceedToNextRound ==
  Call("autoProceedToNextRound", autoProceedToNextRound(state))

SelectItem ==
  \E itemId \in ItemIds \cup DefaultItemIds :
    Call("selectItem", selectItem(state, itemId))

ExecutePendingItemUse ==
  Call("executePendingItemUse", executePendingItemUse(state))

EnterBattle ==
  /\ LogRoom(state) \/ enterBattle(state).err # "none"
  /\ Call("enterBattle", enterBattle(state))

Attack ==
  \E targetId \in {PlayerId, EnemyId} : Call("attack", attack(state, targetId))

DecreasePreparationTimer ==
  /\ LogRoom(state) \/ decreasePreparationTimer(state).err # "none"
  /\ Call("decreasePreparationTimer", decreasePreparationTimer(state))

MarkPreparationActionTaken ==
  /\ LogRoom(state) \/ markPreparationActionTaken(state).err # "none"
  /\ Call("markPreparationActionTaken", markPreparationActionTaken(state))

AutoExecuteBattlePhase ==
  Call("autoExecuteBattlePhase", autoExecuteBattlePhase(state))

ToggleFormation ==
  /\ Toggles(state) < MaxToggles \/ state.isGameOver
  /\ Call("toggleFormation", toggleFormation(state))

\* The caller restarts from a freshly built default battle, not from the
\* battle in progress.
ResetBattle ==
  Call("resetBattle", Ok(resetBattle(createInitialGameState)))

ProcessEnemyTurn ==
  /\ LogRoom(state) \/ processEnemyTurn(state).err # "none"
  /\ Call("processEnemyTurn", processEnemyTurn(state))

Next ==
  \/ StartPreparationPhase
  \/ StartBattlePhase
  \/ StartResolutionPhase
  \/ NextRound
  \/ AutoProceedToNextRound
  \/ SelectItem
  \/ ExecutePendingItemUse
  \/ EnterBattle
  \/ Attack
  \/ ProcessEnemyTurn
  \/ DecreasePreparationTimer
  \/ MarkPreparationActionTaken
  \/ AutoExecuteBattlePhase
  \/ ToggleFormation
  \/ ResetBattle

Spec == Init /\ [][Next]_vars

\* The battle itself, on every input battle: rounds, item selection and
\* formation changes.
NextBattle ==
  \/ StartBattlePhase
  \/ SelectItem
  \/ ToggleFormation

SpecBattle == InitBattle /\ [][NextBattle]_vars

(***************************************************************************)
(* applySoldierDamage as a function of its inputs                          *)
(***************************************************************************)
SoldierInputs ==
  { [id |-> SoldierId("enemy", 1), maxHp |-> m, currentHp |-> h, attack |-> 2,
     defense |-> 0, quantity |-> q, maxQuantity |-> MaxQty] :
      m \in 1..MaxUnitHp, h \in 1..MaxUnitHp, q \in 1..MaxQty }

\* 3 units of 30 HP taking 40 damage
ExampleStack == createSoldier(SoldierId("enemy", 1), 30, 10, 2, 3, 5)

DamageInputs ==
  { [soldier |-> sd, damage |-> d] :
      sd \in { x \in SoldierInputs : x.currentHp <= x.maxHp }, d \in 0..MaxDamage }
  \cup { [soldier |-> ExampleStack, damage |-> d] : d \in {30, 40} }

InitDmg ==
  /\ state = initializeBattle(
               Character(PlayerId, 5, 3, 1, "player-first", <<>>),
               Character(EnemyId, 4, 3, 1, "soldiers-first", <<>>),
               <<>>)
  /\ lastOp = "initializeBattle"
  /\ result = "none"
  /\ fnIn \in DamageInputs
  /\ fnOut = IdleSoldier

ApplySoldierDamage ==
  /\ lastOp = "initializeBattle"
  /\ fnIn # IdleInput
  /\ lastOp' = "applySoldierDamage"
  /\ fnOut' = applySoldierDamage(fnIn.soldier, fnIn.damage)
  /\ UNCHANGED <<state, result, fnIn>>

NextDmg == ApplySoldierDamage

SpecDmg == InitDmg /\ [][NextDmg]_vars

(***************************************************************************)
(* findAttackTarget as a function of its inputs: a defender with any       *)
(* formation (or none) and up to MaxStacks stacks, each full, damaged,     *)
(* emptied, or with only one of HP and quantity at 0.                      *)
(***************************************************************************)
\* <<currentHp, quantity>> of a stack of maxHp 2, maxQuantity 2
StackConditions == { <<2, 2>>, <<1, 1>>, <<0, 0>>, <<0, 1>>, <<2, 0>> }

RECURSIVE StackLists(_)
StackLists(n) ==
  IF n = 0 THEN { <<>> }
  ELSE LET shorter == StackLists(n - 1)
       IN shorter \cup
          { Append(ss, [createSoldier(SoldierId("enemy", n), 2, 2, 0, c[2], 2)
                          EXCEPT !.currentHp = c[1]]) :
              ss \in { x \in shorter : Len(x) = n - 1 }, c \in StackConditions }

TargetInputs ==
  { [defender |-> Character(EnemyId, 4, 3, 1, f, ss), soldiers |-> ss] :
      f \in Formations \cup {"undefined"}, ss \in StackLists(MaxStacks) }

InitTarget ==
  /\ state = initializeBattle(
               Character(PlayerId, 5, 3, 1, "player-first", <<>>),
               Character(EnemyId, 4, 3, 1, "soldiers-first", <<>>),
               <<>>)
  /\ lastOp = "initializeBattle"
  /\ result = "none"
  /\ fnIn \in TargetInputs
  /\ fnOut = IdleSoldier

FindAttackTarget ==
  /\ lastOp = "initializeBattle"
  /\ lastOp' = "findAttackTarget"
  /\ fnOut' = findAttackTarget(fnIn.defender, fnIn.soldiers)
  /\ UNCHANGED <<state, result, fnIn>>

NextTarget == FindAttackTarget

SpecTarget == InitTarget /\ [][NextTarget]_vars

(***************************************************************************)
(* executePendingItemUse as a function of the battle-phase state it is     *)
(* given by startBattlePhase: a battle whose player lead and first stack   *)
(* are full, damaged or dead, with or without an item selected during      *)
(* preparation.                                                            *)
(***************************************************************************)
FirstStackVariants(soldiers) ==
  IF soldiers = <<>> THEN { soldiers }
  ELSE { soldiers,
         [soldiers EXCEPT ![1].currentHp = 1],
         [soldiers EXCEPT ![1].currentHp = 0, ![1].quantity = 0] }

ItemPlayers ==
  { c \in UNION { { [p EXCEPT !.currentHp = h, !.soldiers = ss] :
                      h \in 0..p.maxHp, ss \in FirstStackVariants(p.soldiers) } :
                    p \in Players } :
      isCharacterOrSoldiersAlive(c) }

Prepared(base) ==
  { base } \cup { selectItem(base, itemId).st : itemId \in ItemIds }

ItemInputs ==
  { [s EXCEPT !.currentPhase = "battle",
              !.battleLog = Append(@, LogEntry("battle", "battle-phase", s.currentRound))] :
      s \in UNION { Prepared(initializeBattle(
                                p,
                                Character(EnemyId, 4, 3, 1, "soldiers-first", <<>>),
                                items)) :
                      p \in ItemPlayers, items \in ItemSets } }

IdleResult ==
  [err |-> "none", st |-> initializeBattle(
                            Character(PlayerId, 5, 3, 1, "player-first", <<>>),
                            Character(EnemyId, 4, 3, 1, "soldiers-first", <<>>),
                            <<>>)]

InitItem ==
  /\ state = IdleResult.st
  /\ lastOp = "initializeBattle"
  /\ result = "none"
  /\ fnIn \in ItemInputs
  /\ fnOut = IdleResult

ExecuteItemUse ==
  /\ lastOp = "initializeBattle"
  /\ lastOp' = "executePendingItemUse"
  /\ fnOut' = executePendingItemUse(fnIn)
  /\ UNCHANGED <<state, result, fnIn>>

NextItem == ExecuteItemUse

SpecItem == InitItem /\ [][NextItem]_vars

(***************************************************************************)
(* selectItem as a function of its inputs: the states of the first two     *)
(* rounds of a battle (before and after an item selection, after a round   *)
(* that consumed the item, after the end of the battle) and every item id. *)
(***************************************************************************)
RECURSIVE StatesWithin(_, _)
StatesWithin(base, rounds) ==
  IF rounds = 0 THEN Prepared(base)
  ELSE Prepared(base)
       \cup UNION { StatesWithin(startBattlePhase(x).st, rounds - 1) : x \in Prepared(base) }

SelectInputs ==
  { [state |-> s, itemId |-> itemId] :
      s \in UNION { StatesWithin(initializeBattle(p, e, items), SelectRounds) :
                      p \in FewPlayers \cup { x \in Players : x.soldiers = <<>> },
                      e \in { x \in Enemies : x.soldiers = <<>> },
                      items \in ItemSets },
      itemId \in ItemIds }

InitSelect ==
  /\ state = IdleResult.st
  /\ lastOp = "initializeBattle"
  /\ result = "none"
  /\ fnIn \in SelectInputs
  /\ fnOut = IdleResult

SelectItemCall ==
  /\ lastOp = "initializeBattle"
  /\ lastOp' = "selectItem"
  /\ fnOut' = selectItem(fnIn.state, fnIn.itemId)
  /\ UNCHANGED <<state, result, fnIn>>

NextSelect == SelectItemCall

SpecSelect == InitSelect /\ [][NextSelect]_vars

(***************************************************************************)
(* Battles of two lead characters without soldier stacks, over a grid of   *)
(* HP, attack and defense values, and the documented 100 HP against 80 HP  *)
(* battle.                                                                 *)
(***************************************************************************)
\* <<maxHp, attack, defense>>
DuelStats ==
  { <<h, a, df>> : h \in 1..DuelMaxHp, a \in 0..DuelMaxStat, df \in 0..DuelMaxStat }

ExamplePlayer == Character(PlayerId, 100, 20, 5, "player-first", <<>>)
ExampleEnemy == Character(EnemyId, 80, 15, 3, "soldiers-first", <<>>)

Duels ==
  { initializeBattle(Character(PlayerId, ps[1], ps[2], ps[3], "soldiers-first", <<>>),
                     Character(EnemyId, es[1], es[2], es[3], "soldiers-first", <<>>),
                     <<>>) : ps \in DuelStats, es \in DuelStats }
  \cup { initializeBattle(ExamplePlayer, ExampleEnemy, <<>>) }

InitDuel ==
  /\ state \in Duels
  /\ lastOp = "initializeBattle"
  /\ result = "none"
  /\ fnIn = IdleInput
  /\ fnOut = IdleSoldier

NextDuel == StartBattlePhase

SpecDuel == InitDuel /\ [][NextDuel]_vars

(***************************************************************************)
(* initializeBattle as a function of its inputs: a player whose lead and   *)
(* first stack are full, damaged or dead, an enemy and an inventory.       *)
(***************************************************************************)
BattleInputs ==
  { [player |-> p, enemy |-> e, playerItems |-> items] :
      p \in ItemPlayers, e \in Enemies, items \in ItemSets }

InitInitialize ==
  /\ state = IdleResult.st
  /\ lastOp = "none"
  /\ result = "none"
  /\ fnIn \in BattleInputs
  /\ fnOut = IdleResult

InitializeBattle ==
  /\ lastOp = "none"
  /\ lastOp' = "initializeBattle"
  /\ fnOut' = Ok(initializeBattle(fnIn.player, fnIn.enemy, fnIn.playerItems))
  /\ UNCHANGED <<state, result, fnIn>>

NextInitialize == InitializeBattle

SpecInitialize == InitInitialize /\ [][NextInitialize]_vars

(***************************************************************************)
(* The preparation-phase operations as functions of the state they are     *)
(* given: the states of the first rounds of a battle, with the countdown   *)
(* fresh, at its last tick or expired, and the action flag in either       *)
(* position.                                                               *)
(***************************************************************************)
CallStates ==
  { [s EXCEPT !.preparationTimer = t, !.preparationActionTaken = a] :
      s \in UNION { StatesWithin(initializeBattle(p, e, items), SelectRounds) :
                      p \in Players, e \in Enemies, items \in ItemSets },
      t \in {0, 1, PREPARATION_TIME}, a \in BOOLEAN }

InitCall ==
  /\ state = IdleResult.st
  /\ lastOp = "none"
  /\ result = "none"
  /\ fnIn \in { [state |-> s] : s \in CallStates }
  /\ fnOut = IdleResult

StartPreparationPhaseCall ==
  /\ lastOp = "none"
  /\ lastOp' = "startPreparationPhase"
  /\ fnOut' = startPreparationPhase(fnIn.state)
  /\ UNCHANGED <<state, result, fnIn>>

EnterBattleCall ==
  /\ lastOp = "none"
  /\ lastOp' = "enterBattle"
  /\ fnOut' = enterBattle(fnIn.state)
  /\ UNCHANGED <<state, result, fnIn>>

ToggleFormationCall ==
  /\ lastOp \in {"none", "toggleFormation"}
  /\ lastOp' = IF lastOp = "none" THEN "toggleFormation" ELSE "toggleFormation-twice"
  /\ fnOut' = toggleFormation(IF lastOp = "none" THEN fnIn.state ELSE fnOut.st)
  /\ UNCHANGED <<state, result, fnIn>>

NextCall ==
  \/ StartPreparationPhaseCall
  \/ EnterBattleCall
  \/ ToggleFormationCall

SpecCall == InitCall /\ [][NextCall]_vars

(***************************************************************************)
(* Every operation as a function of the state it is given, on states whose *)
(* log already holds the entries of earlier calls and rounds: the states   *)
(* of the first rounds of a battle as a caller sees them, and the same     *)
(* states in phase battle and in phase resolution, as startBattlePhase and *)
(* startResolutionPhase hand them on to the operations they call.          *)
(***************************************************************************)
LogStates ==
  CallStates
  \cup { [s EXCEPT !.currentPhase = phase] :
           s \in CallStates, phase \in {"battle", "resolution"} }

InitLog ==
  /\ state = IdleResult.st
  /\ lastOp = "none"
  /\ result = "none"
  /\ fnIn \in { [state |-> s] : s \in LogStates }
  /\ fnOut = IdleResult

LogCall(op, res) ==
  /\ lastOp = "none"
  /\ lastOp' = op
  /\ fnOut' = res
  /\ UNCHANGED <<state, result, fnIn>>

NextLog ==
  \/ LogCall("startPreparationPhase", startPreparationPhase(fnIn.state))
  \/ LogCall("startBattlePhase", startBattlePhase(fnIn.state))
  \/ LogCall("startResolutionPhase", startResolutionPhase(fnIn.state))
  \/ LogCall("nextRound", nextRound(fnIn.state))
  \/ LogCall("autoProceedToNextRound", autoProceedToNextRound(fnIn.state))
  \/ \E itemId \in ItemIds \cup DefaultItemIds :
       LogCall("selectItem", selectItem(fnIn.state, itemId))
  \/ LogCall("executePendingItemUse", executePendingItemUse(fnIn.state))
  \/ LogCall("enterBattle", enterBattle(fnIn.state))
  \/ \E targetId \in {PlayerId, EnemyId} :
       LogCall("attack", attack(fnIn.state, targetId))
  \/ LogCall("processEnemyTurn", processEnemyTurn(fnIn.state))
  \/ LogCall("decreasePreparationTimer", decreasePreparationTimer(fnIn.state))
  \/ LogCall("markPreparationActionTaken", markPreparationActionTaken(fnIn.state))
  \/ LogCall("autoExecuteBattlePhase", autoExecuteBattlePhase(fnIn.state))
  \/ LogCall("toggleFormation", toggleFormation(fnIn.state))
  \/ LogCall("resetBattle", Ok(resetBattle(fnIn.state)))

SpecLog == InitLog /\ [][NextLog]_vars

(***************************************************************************)
(* calculateDamage as a function of its inputs: an attacking and a         *)
(* defending unit, each a lead character or a soldier stack, with attack   *)
(* and defense values from 0 to CalcMaxStat.                               *)
(***************************************************************************)
CalcAttackers ==
  { Character(PlayerId, 5, a, 1, "player-first", <<>>) : a \in 0..CalcMaxStat }
  \cup { createSoldier(SoldierId("player", 1), 2, a, 0, 2, 3) : a \in 0..CalcMaxStat }

CalcDefenders ==
  { Character(EnemyId, 4, 3, df, "soldiers-first", <<>>) : df \in 0..CalcMaxStat }
  \cup { createSoldier(SoldierId("enemy", 1), 2, 2, df, 2, 3) : df \in 0..CalcMaxStat }

CalcInputs ==
  { [attacker |-> a, defender |-> df] : a \in CalcAttackers, df \in CalcDefenders }

InitCalc ==
  /\ state = IdleResult.st
  /\ lastOp = "none"
  /\ result = "none"
  /\ fnIn \in CalcInputs
  /\ fnOut = 0

CalculateDamage ==
  /\ lastOp = "none"
  /\ lastOp' = "calculateDamage"
  /\ fnOut' = calculateDamage(fnIn.attacker, fnIn.defender)
  /\ UNCHANGED <<state, result, fnIn>>

NextCalc == CalculateDamage

SpecCalc == InitCalc /\ [][NextCalc]_vars

(***************************************************************************)
(* The preparation countdown as the caller drives it: ticks, the           *)
(* action-taken mark, a restart of the preparation phase, the round and a  *)
(* restart of the battle.  fnIn remembers the round in which               *)
(* markPreparationActionTaken last succeeded (0: not in this battle).      *)
(***************************************************************************)
TimerEntries(s) ==
  Len(SelectSeq(s.battleLog,
                LAMBDA entry : entry.message \in {"preparation-phase", "timer-expired"}))

InitTimer ==
  /\ \E p \in { q \in FewPlayers : q.soldiers = <<>> }, e \in FewEnemies,
        items \in { i \in ItemSets : Len(i) = 1 } :
       state = initializeBattle(p, e, items)
  /\ lastOp = "initializeBattle"
  /\ result = "none"
  /\ fnIn = [markedRound |-> 0]
  /\ fnOut = IdleSoldier

TimerCall(op, res, markedRound) ==
  /\ lastOp' = op
  /\ result' = res.err
  /\ state' = res.st
  /\ fnIn' = [markedRound |-> markedRound]
  /\ UNCHANGED fnOut

TimerTick ==
  /\ TimerEntries(decreasePreparationTimer(state).st) <= MaxTimerLog
  /\ TimerCall("decreasePreparationTimer", decreasePreparationTimer(state),
               fnIn.markedRound)

TimerMark ==
  LET res == markPreparationActionTaken(state)
  IN TimerCall("markPreparationActionTaken", res,
               IF res.err = "none" THEN state.currentRound ELSE fnIn.markedRound)

TimerStartPreparation ==
  /\ TimerEntries(startPreparationPhase(state).st) <= MaxTimerLog
  /\ TimerCall("startPreparationPhase", startPreparationPhase(state),
               fnIn.markedRound)

TimerStartBattle ==
  /\ state.currentRound <= MaxRound
  /\ TimerCall("startBattlePhase", startBattlePhase(state), fnIn.markedRound)

TimerResetBattle ==
  TimerCall("resetBattle", Ok(resetBattle(createInitialGameState)), 0)

NextTimer ==
  \/ TimerTick
  \/ TimerMark
  \/ TimerStartPreparation
  \/ TimerStartBattle
  \/ TimerResetBattle

SpecTimer == InitTimer /\ [][NextTimer]_vars

(***************************************************************************)
(* One battle from initializeBattle to its end: every operation except     *)
(* resetBattle.                                                            *)
(***************************************************************************)
NextOneBattle ==
  \/ StartPreparationPhase
  \/ StartBattlePhase
  \/ StartResolutionPhase
  \/ NextRound
  \/ AutoProceedToNextRound
  \/ SelectItem
  \/ ExecutePendingItemUse
  \/ EnterBattle
  \/ Attack
  \/ ProcessEnemyTurn
  \/ DecreasePreparationTimer
  \/ MarkPreparationActionTaken
  \/ AutoExecuteBattlePhase
  \/ ToggleFormation

SpecOneBattle == Init /\ [][NextOneBattle]_vars

(***************************************************************************)
(* applySoldierDamage applied to a stack in two hits and in one hit of the *)
(* same total.  fnOut = [first, second, whole].                            *)
(***************************************************************************)
SplitInputs ==
  { [soldier |-> sd, first |-> d1, second |-> d2] :
      sd \in { x \in SoldierInputs : x.currentHp <= x.maxHp },
      d1 \in 0..MaxDamage, d2 \in 0..MaxDamage }

InitSplit ==
  /\ state = IdleResult.st
  /\ lastOp = "none"
  /\ result = "none"
  /\ fnIn \in SplitInputs
  /\ fnOut = [first |-> NoSoldier, second |-> NoSoldier, whole |-> NoSoldier]

ApplyFirstHit ==
  /\ lastOp = "none"
  /\ lastOp' = "applySoldierDamage-first"
  /\ fnOut' = [fnOut EXCEPT !.first = applySoldierDamage(fnIn.soldier, fnIn.first)]
  /\ UNCHANGED <<state, result, fnIn>>

ApplySecondHit ==
  /\ lastOp = "applySoldierDamage-first"
  /\ lastOp' = "applySoldierDamage-second"
  /\ fnOut' = [fnOut EXCEPT !.second = applySoldierDamage(fnOut.first, fnIn.second)]
  /\ UNCHANGED <<state, result, fnIn>>

ApplyWholeHit ==
  /\ lastOp = "applySoldierDamage-second"
  /\ lastOp' = "applySoldierDamage-whole"
  /\ fnOut' = [fnOut EXCEPT
                 !.whole = applySoldierDamage(fnIn.soldier, fnIn.first + fnIn.second)]
  /\ UNCHANGED <<state, result, fnIn>>

NextSplit == ApplyFirstHit \/ ApplySecondHit \/ ApplyWholeHit

SpecSplit == InitSplit /\ [][NextSplit]_vars

(***************************************************************************)
(* The inventory over a battle of several rounds: two kinds of potion, one *)
(* of them with a supply of 2, and every operation of the engine.          *)
(***************************************************************************)
StockItems ==
  << [id |-> 1, type |-> "healing_potion", heal |-> 2, quantity |-> 2],
     [id |-> 2, type |-> "healing_potion", heal |-> 1, quantity |-> 1] >>

InitStock ==
  /\ \E e \in FewEnemies :
       state = initializeBattle(
                 Character(PlayerId, 3, 1, 4, "player-first", <<>>),
                 e, StockItems)
  /\ lastOp = "initializeBattle"
  /\ result = "none"
  /\ fnIn = IdleInput
  /\ fnOut = IdleSoldier

SpecStock == InitStock /\ [][Next]_vars

(***************************************************************************)
(* The unit-by-unit applySoldierDamage of utils/damageCalculation.ts: the  *)
(* while loop takes the damage off the front unit, removes the unit when   *)
(* its HP is used up and passes the rest on to the next one.               *)
(***************************************************************************)
\* Variant: a front unit whose HP equals the damage left stays with 0 HP.
loopIteration_survivesExactHit(soldier, remainingDamage) ==
  IF soldier.currentHp >= remainingDamage
  THEN [soldier |-> [soldier EXCEPT !.currentHp = soldier.currentHp - remainingDamage],
        remainingDamage |-> 0]
  ELSE [soldier |-> [soldier EXCEPT
                       !.quantity = soldier.quantity - 1,
                       !.currentHp = IF soldier.quantity - 1 > 0 THEN soldier.maxHp
                                                                 ELSE 0],
        remainingDamage |-> remainingDamage - soldier.currentHp]

\* One pass through the body of the loop.
loopIteration(soldier, remainingDamage) ==
  IF soldier.currentHp > remainingDamage
  THEN [soldier |-> [soldier EXCEPT !.currentHp = soldier.currentHp - remainingDamage],
        remainingDamage |-> 0]
  ELSE [soldier |-> [soldier EXCEPT
                       !.quantity = soldier.quantity - 1,
                       !.currentHp = IF soldier.quantity - 1 > 0 THEN soldier.maxHp
                                                                 ELSE 0],
        remainingDamage |-> remainingDamage - soldier.currentHp]

RECURSIVE whileRemainingDamage(_, _)
whileRemainingDamage(updatedSoldier, remainingDamage) ==
  IF remainingDamage > 0 /\ updatedSoldier.quantity > 0
  THEN LET next == loopIteration(updatedSoldier, remainingDamage)
       IN whileRemainingDamage(next.soldier, next.remainingDamage)
  ELSE updatedSoldier

applySoldierDamageLoop(soldier, damage) == whileRemainingDamage(soldier, damage)

\* Stacks with quantity 0 and HP 0, or quantity >= 1 and 1 <= HP <= maxHp, and
\* the stacks of the unit tests (units of 30 HP).
LoopStacks ==
  { [id |-> SoldierId("enemy", 1), maxHp |-> m, currentHp |-> h, attack |-> 2,
     defense |-> 0, quantity |-> q, maxQuantity |-> MaxQty] :
      m \in 1..MaxUnitHp, h \in 0..MaxUnitHp, q \in 0..MaxQty }

LoopInputs ==
  { [soldier |-> sd, damage |-> d] :
      sd \in { x \in LoopStacks : IF x.quantity = 0 THEN x.currentHp = 0
                                   ELSE 1 <= x.currentHp /\ x.currentHp <= x.maxHp },
      d \in 0..MaxDamage }
  \cup { [soldier |-> createSoldier(SoldierId("enemy", 1), 30, 10, 2, in[1], 5),
          damage |-> in[2]] :
            in \in { <<3, 15>>, <<3, 40>>, <<5, 80>>, <<2, 100>> } }

InitLoop ==
  /\ state = IdleResult.st
  /\ lastOp = "none"
  /\ result = "none"
  /\ fnIn \in LoopInputs
  /\ fnOut = [loop |-> NoSoldier, closed |-> NoSoldier]

ApplyLoop ==
  /\ lastOp = "none"
  /\ lastOp' = "applySoldierDamage-loop"
  /\ fnOut' = [fnOut EXCEPT !.loop = applySoldierDamageLoop(fnIn.soldier, fnIn.damage)]
  /\ UNCHANGED <<state, result, fnIn>>

ApplyClosedForm ==
  /\ lastOp = "applySoldierDamage-loop"
  /\ lastOp' = "applySoldierDamage-closed"
  /\ fnOut' = [fnOut EXCEPT !.closed = applySoldierDamage(fnIn.soldier, fnIn.damage)]
  /\ UNCHANGED <<state, result, fnIn>>

NextLoop == ApplyLoop \/ ApplyClosedForm

SpecLoop == InitLoop /\ [][NextLoop]_vars

(***************************************************************************)
(* Properties                                                              *)
(***************************************************************************)
BattleRan == lastOp = "startBattlePhase" /\ result = "none"

\* A successful startBattlePhase step of the caller.
BattleStep == lastOp' = "startBattlePhase" /\ result' = "none"

HasLivingStack(character) ==
  \E i \in 1..Len(character.soldiers) : isSoldierAlive(character.soldiers[i])

DeadLeadLivingStack(character) ==
  ~isCharacterAlive(character) /\ HasLivingStack(character)

\* C1: a startBattlePhase that succeeds in phase preparation with the battle
\* not over returns either to preparation of the next round (round + 1, not
\* over, countdown 30, action-taken false) or a finished battle in phase
\* resolution with the round unchanged; never a state in phase battle.
C1_RoundCycle ==
  [][ (state.currentPhase = "preparation" /\ ~state.isGameOver /\ BattleStep) =>
        /\ state'.currentPhase # "battle"
        /\ \/ /\ state'.currentPhase = "preparation"
              /\ state'.currentRound = state.currentRound + 1
              /\ ~state'.isGameOver
              /\ state'.preparationTimer = 30
              /\ state'.preparationActionTaken = FALSE
           \/ /\ state'.isGameOver
              /\ state'.currentPhase = "resolution"
              /\ state'.currentRound = state.currentRound ]_vars

C1_Witness ==
  /\ BattleRan
  /\ state.currentPhase = "preparation"
  /\ state.currentRound = 2
  /\ ~state.isGameOver
  /\ state.preparationTimer = 30

\* C2 (as stated): in every state with isGameOver = true the side named by
\* winner is alive and the other side is not.
C2_WinnerAliveLoserDead ==
  state.isGameOver =>
    /\ state.winner = "player" =>
         isCharacterOrSoldiersAlive(state.player) /\ ~isCharacterOrSoldiersAlive(state.enemy)
    /\ state.winner = "enemy" =>
         isCharacterOrSoldiersAlive(state.enemy) /\ ~isCharacterOrSoldiersAlive(state.player)
    /\ state.winner # "none"

\* C2 (amended): after the records of the round are applied, the battle is
\* over exactly when at least one side is not alive; the winner is then the
\* player if the player side is alive and the enemy otherwise, also when both
\* sides died in the same round; with both sides alive the battle is not over
\* and the next round begins.  In a finished battle the side not named by
\* winner is not alive.
C2_EndOfBattle ==
  [][ BattleStep =>
        LET isPlayerAlive == isCharacterOrSoldiersAlive(state'.player)
            isEnemyAlive == isCharacterOrSoldiersAlive(state'.enemy)
        IN /\ state'.isGameOver <=> (~isPlayerAlive \/ ~isEnemyAlive)
           /\ state'.isGameOver =>
                /\ state'.winner = (IF isPlayerAlive THEN "player" ELSE "enemy")
                /\ state'.winner = "player" => ~isEnemyAlive
                /\ state'.winner = "enemy" => ~isPlayerAlive
           /\ ~state'.isGameOver =>
                /\ state'.winner = "none"
                /\ state'.currentRound = state.currentRound + 1
                /\ state'.currentPhase = "preparation" ]_vars

C2_Witness ==
  /\ BattleRan
  /\ state.isGameOver
  /\ state.winner = "enemy"
  /\ ~isCharacterOrSoldiersAlive(state.player)
  /\ ~isCharacterOrSoldiersAlive(state.enemy)

\* C3: once isGameOver is true, every engine operation other than resetBattle
\* fails and leaves phase, round, winner, every HP and quantity and the
\* inventory as they were.
C3_GameOverAbsorbing ==
  [][ (state.isGameOver /\ lastOp' # "resetBattle") =>
        (state' = state /\ result' # "none") ]_vars

C3_Witness ==
  /\ state.isGameOver
  /\ lastOp = "toggleFormation"
  /\ result = "BATTLE_ALREADY_ENDED"

\* C4: in a round that startBattlePhase begins while an item use is pending,
\* no DamageRecord has the player's lead character as attacker.
C4_NoLeadAttackInItemRound ==
  [][ (state.pendingItemUse # NoItemUse /\ BattleStep) =>
        \A i \in 1..Len(state'.calculatedDamages) :
          state'.calculatedDamages[i].attackerId # PlayerId ]_vars

\* Position of an attacker in the stated order: player lead, player stacks in
\* stack order, enemy lead, enemy stacks in stack order.
AttackerRank(id) == (IF id.owner = "player" THEN 0 ELSE 100) + id.unit

\* C5: the records of a round are in the order player lead, player stacks,
\* enemy lead, enemy stacks.
C5_AttackerOrder ==
  [][ BattleStep =>
        \A i, j \in 1..Len(state'.calculatedDamages) :
          i < j => AttackerRank(state'.calculatedDamages[i].attackerId)
                     < AttackerRank(state'.calculatedDamages[j].attackerId) ]_vars

LiveAttackers(character) ==
  (IF isCharacterAlive(character) THEN {character.id} ELSE {})
  \cup { character.soldiers[i].id : i \in { k \in 1..Len(character.soldiers) :
                                             isSoldierAlive(character.soldiers[k]) } }

\* C6: a round without item use produces exactly one record for every live
\* attacker of both sides (a living stack attacks whether or not its lead is
\* alive) and none for a dead one.
C6_OneRecordPerLiveAttacker ==
  [][ (state.pendingItemUse = NoItemUse /\ BattleStep) =>
        LET records == state'.calculatedDamages
            live == LiveAttackers(state.player) \cup LiveAttackers(state.enemy)
        IN /\ \A a \in live :
                Cardinality({ i \in 1..Len(records) : records[i].attackerId = a }) = 1
           /\ \A i \in 1..Len(records) : records[i].attackerId \in live ]_vars

\* C7: a round begun with both sides alive is never a stalemate: it changes
\* some HP or some stack quantity.
C7_RoundMakesProgress ==
  [][ ( /\ isCharacterOrSoldiersAlive(state.player)
        /\ isCharacterOrSoldiersAlive(state.enemy)
        /\ ~state.isGameOver
        /\ state.pendingItemUse = NoItemUse
        /\ BattleStep ) =>
        (state'.player # state.player \/ state'.enemy # state.enemy) ]_vars

\* C8: a side whose lead is at 0 HP but which has a living stack counts as
\* alive: after a round, the battle is not over on its account; it goes on to
\* the next round if the other side is alive, and is won by that side if not.
C8_DeadLeadWithStackIsAlive ==
  BattleRan =>
    /\ DeadLeadLivingStack(state.player) =>
         IF isCharacterOrSoldiersAlive(state.enemy)
         THEN ~state.isGameOver /\ state.currentPhase = "preparation"
         ELSE state.isGameOver /\ state.winner = "player"
    /\ DeadLeadLivingStack(state.enemy) =>
         IF isCharacterOrSoldiersAlive(state.player)
         THEN ~state.isGameOver /\ state.currentPhase = "preparation"
         ELSE state.isGameOver /\ state.winner = "enemy"

C8_Witness ==
  /\ BattleRan
  /\ DeadLeadLivingStack(state.player)
  /\ isCharacterAlive(state.enemy)
  /\ ~state.isGameOver
  /\ state.currentRound > 1


\* C9: for a stack with quantity >= 1 and 1 <= currentHp <= maxHp and a damage
\* d >= 0, applySoldierDamage returns currentHp - d with the quantity unchanged
\* when d < currentHp; otherwise the quantity becomes
\* max(0, quantity - (1 + floor((d - currentHp) / maxHp))) and the HP becomes
\* maxHp - ((d - currentHp) mod maxHp) if a unit remains and 0 if none does;
\* no other field changes.  3 units of 30 HP taking 40 give 2 units, HP 20.
C9_StackDamageFormula ==
  lastOp = "applySoldierDamage" =>
    LET sd == fnIn.soldier
        d == fnIn.damage
        kept == Max(0, sd.quantity - (1 + ((d - sd.currentHp) \div sd.maxHp)))
    IN /\ d < sd.currentHp =>
            /\ fnOut.currentHp = sd.currentHp - d
            /\ fnOut.quantity = sd.quantity
       /\ d >= sd.currentHp =>
            /\ fnOut.quantity = kept
            /\ kept > 0 => fnOut.currentHp = sd.maxHp - ((d - sd.currentHp) % sd.maxHp)
            /\ kept = 0 => fnOut.currentHp = 0
       /\ d = sd.currentHp /\ sd.quantity > 1 =>
            /\ fnOut.quantity = sd.quantity - 1
            /\ fnOut.currentHp = sd.maxHp
       /\ fnOut.id = sd.id /\ fnOut.maxHp = sd.maxHp /\ fnOut.attack = sd.attack
       /\ fnOut.defense = sd.defense /\ fnOut.maxQuantity = sd.maxQuantity
       /\ (sd = ExampleStack /\ d = 40) => (fnOut.quantity = 2 /\ fnOut.currentHp = 20)

C9_Witness ==
  /\ lastOp = "applySoldierDamage"
  /\ fnIn.soldier = ExampleStack
  /\ fnIn.damage = 40
  /\ fnOut.quantity = 2
  /\ fnOut.currentHp = 20

StackInRange(soldier) ==
  /\ 0 <= soldier.quantity /\ soldier.quantity <= soldier.maxQuantity
  /\ 0 <= soldier.currentHp /\ soldier.currentHp <= soldier.maxHp
  /\ soldier.quantity = 0 => soldier.currentHp = 0

\* C10: every stack of both sides has 0 <= quantity <= maxQuantity and
\* 0 <= currentHp <= maxHp, and currentHp = 0 whenever quantity = 0.
C10_StackInvariant ==
  /\ \A i \in 1..Len(state.player.soldiers) : StackInRange(state.player.soldiers[i])
  /\ \A i \in 1..Len(state.enemy.soldiers) : StackInRange(state.enemy.soldiers[i])

C10_Witness ==
  /\ BattleRan
  /\ \E i \in 1..Len(state.enemy.soldiers) :
       state.enemy.soldiers[i].quantity = 0 /\ state.enemy.soldiers[i].currentHp = 0
  /\ \E i \in 1..Len(state.player.soldiers) :
       /\ state.player.soldiers[i].quantity > 0
       /\ state.player.soldiers[i].currentHp < state.player.soldiers[i].maxHp

Logged(message) ==
  \E i \in 1..Len(state.battleLog) : state.battleLog[i].message = message

HpInRange(character) ==
  0 <= character.currentHp /\ character.currentHp <= character.maxHp

\* C11: in every reachable battle state both lead characters have
\* 0 <= currentHp <= maxHp, whatever damage and potion heals were applied.
C11_LeadHpInRange ==
  HpInRange(state.player) /\ HpInRange(state.enemy)

\* A potion was used on the player's lead in a round in which it was also hit,
\* and a lead has been brought to 0.
C11_Witness ==
  /\ BattleRan
  /\ Logged("item-used")
  /\ state.player.currentHp = state.player.maxHp - 1
  /\ state.enemy.currentHp = 0

\* C12: target resolution returns the first alive stack in declaration order
\* (alive = currentHp > 0 and quantity > 0) exactly when the defender's
\* formation is soldiers-first and some stack is alive; in every other case
\* the target is the defender's lead character.
C12_TargetResolution ==
  lastOp = "findAttackTarget" =>
    LET soldiers == fnIn.soldiers
        alive == { i \in 1..Len(soldiers) :
                     soldiers[i].currentHp > 0 /\ soldiers[i].quantity > 0 }
    IN IF fnIn.defender.formation = "soldiers-first" /\ alive # {}
       THEN /\ fnOut.targetType = "soldier"
            /\ \E i \in alive : /\ \A j \in alive : i <= j
                                 /\ fnOut.soldier = soldiers[i]
       ELSE /\ fnOut.targetType = "character"
            /\ fnOut.soldier = NoSoldier

\* soldiers-first, the first stack emptied, the second with HP 0, the third
\* alive: the third stack is the target.
C12_Witness ==
  /\ lastOp = "findAttackTarget"
  /\ fnIn.defender.formation = "soldiers-first"
  /\ Len(fnIn.soldiers) = 3
  /\ fnIn.soldiers[1].quantity = 0
  /\ fnIn.soldiers[2].currentHp = 0 /\ fnIn.soldiers[2].quantity = 1
  /\ fnOut.targetType = "soldier"
  /\ fnOut.soldier.id = SoldierId("enemy", 3)

\* The state a round's damage is calculated on: the state after the pending
\* item use, if any, has been executed.
RoundStart(s) ==
  IF s.pendingItemUse # NoItemUse
  THEN executePendingItemUse([s EXCEPT !.currentPhase = "battle"]).st
  ELSE s

\* The two sides after the given records have been applied to them.
SidesAfter(records, s) ==
  applyRecords(records, [player |-> s.player, enemy |-> s.enemy, log |-> <<>>], s)

FirstAliveStacks(character) ==
  LET alive == { k \in 1..Len(character.soldiers) :
                   /\ character.soldiers[k].currentHp > 0
                   /\ character.soldiers[k].quantity > 0 }
  IN { k \in alive : \A m \in alive : k <= m }

\* C13: every record of a round is aimed according to the stacks as the
\* earlier records of the same round leave them: at the first stack still
\* alive if the defender is soldiers-first and one is left, at the lead
\* otherwise; never at a stack the earlier records have emptied.
C13_TargetsFollowDepletion ==
  [][ BattleStep =>
        LET start == RoundStart(state)
            records == state'.calculatedDamages
        IN \A j \in 1..Len(records) :
             LET cur == SidesAfter(SubSeq(records, 1, j - 1), start)
                 defender == IF records[j].targetId = PlayerId
                             THEN cur.player ELSE cur.enemy
                 first == FirstAliveStacks(defender)
             IN IF defender.formation = "soldiers-first" /\ first # {}
                THEN /\ records[j].targetType = "soldier"
                     /\ \E k \in first : records[j].soldierId = defender.soldiers[k].id
                ELSE /\ records[j].targetType = "character"
                     /\ records[j].soldierId = NoId ]_vars

\* A record emptied the enemy's first stack and a later record of the same
\* round is aimed at the second one.
C13_Witness ==
  /\ BattleRan
  /\ state.enemy.soldiers # <<>>
  /\ state.enemy.soldiers[1].quantity = 0
  /\ \E i, j \in 1..Len(state.calculatedDamages) :
       /\ i < j
       /\ state.calculatedDamages[i].soldierId = SoldierId("enemy", 1)
       /\ state.calculatedDamages[j].soldierId = SoldierId("enemy", 2)

\* HP left in a stack: the front unit's HP and the full HP of the others.
StackPool(soldier) ==
  IF soldier.quantity > 0
  THEN soldier.currentHp + (soldier.quantity - 1) * soldier.maxHp
  ELSE 0

\* C14: applying a soldier-type record changes only the targeted stack: the
\* lead of that side, its other stacks and the other side are as before, and
\* damage at or beyond the stack's remaining pool empties the stack with the
\* rest discarded.  The sides after a round are the sides after its records.
C14_SoldierRecordFrame ==
  [][ BattleStep =>
        LET start == RoundStart(state)
            records == state'.calculatedDamages
        IN /\ state'.player = SidesAfter(records, start).player
           /\ state'.enemy = SidesAfter(records, start).enemy
           /\ \A j \in 1..Len(records) :
                records[j].targetType = "soldier" =>
                  LET before == SidesAfter(SubSeq(records, 1, j - 1), start)
                      after == SidesAfter(SubSeq(records, 1, j), start)
                      onPlayer == records[j].targetId = PlayerId
                      tb == IF onPlayer THEN before.player ELSE before.enemy
                      ta == IF onPlayer THEN after.player ELSE after.enemy
                      ob == IF onPlayer THEN before.enemy ELSE before.player
                      oa == IF onPlayer THEN after.enemy ELSE after.player
                  IN /\ oa = ob
                     /\ [ta EXCEPT !.soldiers = tb.soldiers] = tb
                     /\ Len(ta.soldiers) = Len(tb.soldiers)
                     /\ \A k \in 1..Len(tb.soldiers) :
                          IF tb.soldiers[k].id = records[j].soldierId
                          THEN /\ ta.soldiers[k].quantity <= tb.soldiers[k].quantity
                               /\ records[j].damage >= StackPool(tb.soldiers[k]) =>
                                    /\ ta.soldiers[k].quantity = 0
                                    /\ ta.soldiers[k].currentHp = 0
                          ELSE ta.soldiers[k] = tb.soldiers[k] ]_vars

\* The enemy's lead dealt 5 to the player's first stack whose pool was 2: the
\* stack is empty, the player's lead and second stack are untouched.
C14_Witness ==
  /\ BattleRan
  /\ Len(state.player.soldiers) = 2
  /\ \E i \in 1..Len(state.calculatedDamages) :
       /\ state.calculatedDamages[i].soldierId = SoldierId("player", 1)
       /\ state.calculatedDamages[i].damage = 5
  /\ state.player.soldiers[1].quantity = 0
  /\ state.player.currentHp = state.player.maxHp
  /\ state.player.soldiers[2].currentHp = 3
  /\ state.player.soldiers[2].quantity = 2

\* The item named by the pending item use.
PendingItem(s) == s.playerItems[findIndex(s.playerItems, s.pendingItemUse.itemId)]

HealedHp(unit, item) == Min(unit.maxHp, unit.currentHp + item.heal)

\* C15: when a pending item use is executed, the heal goes to the front unit
\* of the player's living stack exactly when the player's formation is
\* soldiers-first and the player has a living stack; otherwise it goes to the
\* player's lead character and no stack's HP changes.
C15_HealTargetByFormation ==
  [][ (state.pendingItemUse # NoItemUse /\ BattleStep) =>
        LET after == RoundStart(state)
            item == PendingItem(state)
            first == FirstAliveStacks(state.player)
        IN IF state.player.formation = "soldiers-first" /\ first # {}
           THEN /\ \E i \in 1..Len(state'.battleLog) :
                     state'.battleLog[i].message = "item-used-on-soldier"
                /\ after.player.currentHp = state.player.currentHp
                /\ \A k \in first :
                     after.player.soldiers[k].currentHp
                       = HealedHp(state.player.soldiers[k], item)
           ELSE /\ \A i \in 1..Len(state'.battleLog) :
                     \/ state'.battleLog[i].message # "item-used-on-soldier"
                     \/ state'.battleLog[i].round # state.currentRound
                /\ after.player.soldiers = state.player.soldiers
                /\ after.player.currentHp = HealedHp(state.player, item) ]_vars

\* C16: a successful execution of a pending item use lowers the used item's
\* quantity by exactly 1, clears pendingItemUse and sets the HP of the healed
\* unit (the lead or one stack) to min(maxHp, currentHp + heal), a healed
\* stack keeping its quantity; nothing else of the two sides changes.  With
\* no pending item use the state is returned unchanged.
C16_ItemExecution ==
  lastOp = "executePendingItemUse" =>
    LET s == fnIn
        r == fnOut
        itemIndex == findIndex(s.playerItems, s.pendingItemUse.itemId)
        item == s.playerItems[itemIndex]
    IN /\ s.pendingItemUse = NoItemUse => (r.err = "none" /\ r.st = s)
       /\ (s.pendingItemUse # NoItemUse /\ r.err = "none") =>
            /\ r.st.playerItems = [s.playerItems EXCEPT ![itemIndex].quantity = @ - 1]
            /\ r.st.pendingItemUse = NoItemUse
            /\ r.st.enemy = s.enemy
            /\ \/ r.st.player = [s.player EXCEPT !.currentHp = HealedHp(s.player, item)]
               \/ \E k \in 1..Len(s.player.soldiers) :
                    r.st.player =
                      [s.player EXCEPT !.soldiers[k].currentHp =
                                         HealedHp(s.player.soldiers[k], item)]

\* A damaged stack was healed from 1 to its maximum of 2 with the last potion.
C16_Witness ==
  /\ lastOp = "executePendingItemUse"
  /\ fnOut.err = "none"
  /\ fnIn.pendingItemUse # NoItemUse
  /\ fnIn.player.soldiers # <<>>
  /\ fnIn.player.soldiers[1].currentHp = 1
  /\ fnOut.st.player.soldiers[1].currentHp = 2
  /\ fnOut.st.player.soldiers[1].quantity = fnIn.player.soldiers[1].quantity
  /\ fnOut.st.playerItems[1].quantity = 0

\* C17: in phase preparation with the battle not over, selectItem fails with
\* InvalidAction if an item use is already pending or the item id is unknown,
\* otherwise with InsufficientItems if the item's quantity is <= 0; otherwise
\* it succeeds and only records pendingItemUse (target = the player's lead)
\* and appends one log entry: quantities and every HP are unchanged.  So a
\* second selection in the same round fails.
C17_SelectItemContract ==
  lastOp = "selectItem" =>
    LET s == fnIn.state
        r == fnOut
        known == { i \in 1..Len(s.playerItems) : s.playerItems[i].id = fnIn.itemId }
    IN (s.currentPhase = "preparation" /\ ~s.isGameOver) =>
         IF s.pendingItemUse # NoItemUse \/ known = {}
         THEN r.err = "INVALID_ACTION" /\ r.st = s
         ELSE IF \E i \in known : s.playerItems[i].quantity <= 0
         THEN r.err = "INSUFFICIENT_ITEMS" /\ r.st = s
         ELSE /\ r.err = "none"
              /\ r.st.pendingItemUse = [itemId |-> fnIn.itemId, targetId |-> s.player.id]
              /\ Len(r.st.battleLog) = Len(s.battleLog) + 1
              /\ SubSeq(r.st.battleLog, 1, Len(s.battleLog)) = s.battleLog
              /\ [r.st EXCEPT !.pendingItemUse = s.pendingItemUse,
                              !.battleLog = s.battleLog] = s

\* A second selection of an available item in the same round is refused.
C17_Witness ==
  /\ lastOp = "selectItem"
  /\ fnIn.state.currentPhase = "preparation"
  /\ ~fnIn.state.isGameOver
  /\ fnIn.state.pendingItemUse # NoItemUse
  /\ \E i \in 1..Len(fnIn.state.playerItems) :
       /\ fnIn.state.playerItems[i].id = fnIn.itemId
       /\ fnIn.state.playerItems[i].quantity > 0
  /\ fnOut.err = "INVALID_ACTION"

\* C18: decreasePreparationTimer, called in phase preparation with the battle
\* not over, lowers the countdown by exactly 1 and never below 0 (from 0 it
\* stays 0); outside preparation or after the end of the battle it fails.
C18_TimerDecrement ==
  [][ lastOp' = "decreasePreparationTimer" =>
        IF state.currentPhase = "preparation" /\ ~state.isGameOver
        THEN /\ result' = "none"
             /\ state'.preparationTimer =
                  (IF state.preparationTimer > 0 THEN state.preparationTimer - 1 ELSE 0)
        ELSE result' # "none" /\ state' = state ]_vars

\* C19: with no stacks on either side and both leads alive, a round without
\* item use lowers the enemy's HP by max(1, playerAtk - enemyDef) and the
\* player's HP by max(1, enemyAtk - playerDef), each floored at 0, both
\* computed from the start-of-round state: a lead killed in the round still
\* deals its damage.  20/5 at 100 HP against 15/3 at 80 HP gives 90 and 63.
C19_DuelRound ==
  [][ ( /\ BattleStep
        /\ state.player.soldiers = <<>> /\ state.enemy.soldiers = <<>>
        /\ state.player.currentHp > 0 /\ state.enemy.currentHp > 0
        /\ state.pendingItemUse = NoItemUse ) =>
        LET toEnemy == Max(1, state.player.attack - state.enemy.defense)
            toPlayer == Max(1, state.enemy.attack - state.player.defense)
        IN /\ state'.enemy.currentHp = Max(0, state.enemy.currentHp - toEnemy)
           /\ state'.player.currentHp = Max(0, state.player.currentHp - toPlayer)
           /\ (state.player = ExamplePlayer /\ state.enemy = ExampleEnemy) =>
                (state'.player.currentHp = 90 /\ state'.enemy.currentHp = 63) ]_vars

\* The enemy's lead was killed in the first round and still dealt its damage.
C19_Witness ==
  /\ BattleRan
  /\ state.currentRound = 1
  /\ state.isGameOver
  /\ state.enemy.currentHp = 0
  /\ state.player.currentHp > 0
  /\ state.player.currentHp
       = state.player.maxHp - Max(1, state.enemy.attack - state.player.defense)

\* C20: no operation modifies the BattleState value it is given: after every
\* call, successful or failing, the argument's characters, stacks, items, log
\* and lists are as they were before the call.
C20_InputsUntouched ==
  [][ inputAfter(lastOp', state) = state ]_vars

\* C21: resetBattle returns, for every state including a finished battle,
\* round 1, phase preparation, isGameOver false, no winner, empty
\* pendingActions and calculatedDamages, no pending item use, countdown 30,
\* action-taken false and a log of exactly one entry, with the characters and
\* items of the given state carried over unchanged.
C21_ResetBattle ==
  lastOp = "resetBattle" =>
    /\ fnOut.err = "none"
    /\ fnOut.st.currentRound = 1
    /\ fnOut.st.currentPhase = "preparation"
    /\ fnOut.st.isGameOver = FALSE
    /\ fnOut.st.winner = "none"
    /\ fnOut.st.pendingActions = <<>>
    /\ fnOut.st.calculatedDamages = <<>>
    /\ fnOut.st.pendingItemUse = NoItemUse
    /\ fnOut.st.preparationTimer = 30
    /\ fnOut.st.preparationActionTaken = FALSE
    /\ Len(fnOut.st.battleLog) = 1
    /\ fnOut.st.player = fnIn.state.player
    /\ fnOut.st.enemy = fnIn.state.enemy
    /\ fnOut.st.playerItems = fnIn.state.playerItems

\* A finished battle with a winner, damage records and a used potion was
\* reset: the dead side is carried over as it was.
C21_Witness ==
  /\ lastOp = "resetBattle"
  /\ fnIn.state.isGameOver
  /\ fnIn.state.winner # "none"
  /\ fnIn.state.currentRound > 1
  /\ fnIn.state.calculatedDamages # <<>>
  /\ ~fnOut.st.isGameOver
  /\ fnOut.st.winner = "none"
  /\ \/ ~isCharacterOrSoldiersAlive(fnOut.st.player)
     \/ ~isCharacterOrSoldiersAlive(fnOut.st.enemy)

\* C22: initializeBattle(player, enemy, items) returns a state with round 1,
\* phase preparation, empty log, empty pendingActions and calculatedDamages,
\* isGameOver false, no winner, countdown 30, action-taken false, and exactly
\* the given characters and items.
C22_InitializeBattle ==
  lastOp = "initializeBattle" =>
    /\ fnOut.err = "none"
    /\ fnOut.st.currentRound = 1
    /\ fnOut.st.currentPhase = "preparation"
    /\ fnOut.st.battleLog = <<>>
    /\ fnOut.st.pendingActions = <<>>
    /\ fnOut.st.calculatedDamages = <<>>
    /\ fnOut.st.isGameOver = FALSE
    /\ fnOut.st.winner = "none"
    /\ fnOut.st.preparationTimer = 30
    /\ fnOut.st.preparationActionTaken = FALSE
    /\ fnOut.st.player = fnIn.player
    /\ fnOut.st.enemy = fnIn.enemy
    /\ fnOut.st.playerItems = fnIn.playerItems

\* A battle was created with a player below full HP and a damaged stack.
C22_Witness ==
  /\ lastOp = "initializeBattle"
  /\ fnIn.player.currentHp = 1
  /\ fnIn.player.soldiers # <<>>
  /\ fnIn.player.soldiers[1].currentHp = 1
  /\ fnOut.st.player = fnIn.player
  /\ fnOut.st.currentRound = 1

\* The log of the result is the log of the argument with one entry appended.
OneEntryAppended(before, after) ==
  /\ Len(after.battleLog) = Len(before.battleLog) + 1
  /\ SubSeq(after.battleLog, 1, Len(before.battleLog)) = before.battleLog

\* C23: startPreparationPhase fails exactly when isGameOver is true;
\* otherwise it sets phase preparation, countdown 30 and action-taken false
\* and appends exactly one log entry, leaving the round, both characters, the
\* inventory, any pending item use and everything else unchanged.
C23_StartPreparationPhase ==
  lastOp = "startPreparationPhase" =>
    LET s == fnIn.state
        r == fnOut
    IN IF s.isGameOver
       THEN r.err = "BATTLE_ALREADY_ENDED" /\ r.st = s
       ELSE /\ r.err = "none"
            /\ r.st.currentPhase = "preparation"
            /\ r.st.preparationTimer = 30
            /\ r.st.preparationActionTaken = FALSE
            /\ OneEntryAppended(s, r.st)
            /\ [r.st EXCEPT !.currentPhase = s.currentPhase,
                            !.preparationTimer = s.preparationTimer,
                            !.preparationActionTaken = s.preparationActionTaken,
                            !.battleLog = s.battleLog] = s

\* The preparation phase was restarted in round 2 with an item selected, the
\* countdown expired and the action flag set.
C23_Witness ==
  /\ lastOp = "startPreparationPhase"
  /\ fnOut.err = "none"
  /\ fnIn.state.currentRound = 2
  /\ fnIn.state.pendingItemUse # NoItemUse
  /\ fnIn.state.preparationTimer = 0
  /\ fnIn.state.preparationActionTaken
  /\ fnOut.st.preparationTimer = 30
  /\ fnOut.st.pendingItemUse = fnIn.state.pendingItemUse

\* C24: enterBattle fails unless the phase is preparation, the battle is not
\* over and the player's lead has currentHp > 0 (a dead lead with living
\* soldiers is rejected with CharacterDead); on success it appends exactly
\* one log entry and changes nothing else, in particular not the phase.
C24_EnterBattle ==
  lastOp = "enterBattle" =>
    LET s == fnIn.state
        r == fnOut
    IN IF s.currentPhase = "preparation" /\ ~s.isGameOver /\ s.player.currentHp > 0
       THEN /\ r.err = "none"
            /\ OneEntryAppended(s, r.st)
            /\ [r.st EXCEPT !.battleLog = s.battleLog] = s
            /\ r.st.currentPhase = "preparation"
       ELSE /\ r.err # "none"
            /\ r.st = s
            /\ ( /\ s.currentPhase = "preparation" /\ ~s.isGameOver
                 /\ s.player.currentHp = 0 ) => r.err = "CHARACTER_DEAD"

\* A player with a dead lead and a living stack was rejected.
C24_Witness ==
  /\ lastOp = "enterBattle"
  /\ fnIn.state.currentPhase = "preparation"
  /\ ~fnIn.state.isGameOver
  /\ DeadLeadLivingStack(fnIn.state.player)
  /\ fnOut.err = "CHARACTER_DEAD"

\* C25: the battle log is append-only: for every successful operation other
\* than resetBattle, the log of the state given is a prefix of the log of the
\* state returned.
C25_LogAppendOnly ==
  (lastOp \notin {"none", "resetBattle"} /\ fnOut.err = "none") =>
    /\ Len(fnOut.st.battleLog) >= Len(fnIn.state.battleLog)
    /\ SubSeq(fnOut.st.battleLog, 1, Len(fnIn.state.battleLog))
         = fnIn.state.battleLog

\* In round 2 the last tick of the countdown appends its notice to a log that
\* holds the entries of round 1, the end of the round among them.
C25_Witness ==
  /\ lastOp = "decreasePreparationTimer"
  /\ fnOut.err = "none"
  /\ fnIn.state.currentRound = 2
  /\ \E i \in 1..Len(fnIn.state.battleLog) :
       /\ fnIn.state.battleLog[i].round = 1
       /\ fnIn.state.battleLog[i].message = "round-end"
  /\ Len(fnOut.st.battleLog) = Len(fnIn.state.battleLog) + 1
  /\ fnOut.st.battleLog[Len(fnOut.st.battleLog)].round = 2

\* C26: calculateDamage(attacker, defender) is the attack of the attacker
\* minus the defense of the defender when that is at least 1, and 1
\* otherwise: it is at least 1 even when defense >= attack.
C26_CalculateDamage ==
  lastOp = "calculateDamage" =>
    LET difference == fnIn.attacker.attack - fnIn.defender.defense
    IN /\ difference >= 1 => fnOut = difference
       /\ difference < 1 => fnOut = 1
       /\ fnOut >= 1

\* The defense exceeds the attack and the damage is 1.
C26_Witness ==
  /\ lastOp = "calculateDamage"
  /\ fnIn.defender.defense > fnIn.attacker.attack
  /\ fnOut = 1

OtherFormation(formation) ==
  IF formation = "soldiers-first" THEN "player-first" ELSE "soldiers-first"

\* C27: toggleFormation, with the battle not over and the player's formation
\* soldiers-first or player-first, switches the formation to the other value
\* and changes nothing else except appending one log entry; applied twice it
\* restores the original formation; after the end of the battle it fails with
\* BattleAlreadyEnded.
C27_ToggleFormation ==
  LET s == fnIn.state
      r == fnOut
  IN /\ lastOp = "toggleFormation" =>
          IF s.isGameOver
          THEN r.err = "BATTLE_ALREADY_ENDED" /\ r.st = s
          ELSE /\ r.err = "none"
               /\ s.player.formation \in Formations
               /\ r.st.player.formation = OtherFormation(s.player.formation)
               /\ r.st.player.formation # s.player.formation
               /\ OneEntryAppended(s, r.st)
               /\ [r.st EXCEPT !.player.formation = s.player.formation,
                               !.battleLog = s.battleLog] = s
     /\ (lastOp = "toggleFormation-twice" /\ ~s.isGameOver) =>
          /\ r.err = "none"
          /\ r.st.player = s.player
          /\ [r.st EXCEPT !.battleLog = s.battleLog] = s

\* The formation of a player with a living stack was switched from
\* player-first to soldiers-first and back.
C27_Witness ==
  /\ lastOp = "toggleFormation-twice"
  /\ ~fnIn.state.isGameOver
  /\ fnIn.state.player.formation = "player-first"
  /\ HasLivingStack(fnIn.state.player)
  /\ fnOut.st.player.formation = "player-first"
  /\ Len(fnOut.st.battleLog) = Len(fnIn.state.battleLog) + 2

\* Total damage of the records aimed at one unit: a lead (soldierId = NoId)
\* or a stack of the side targetId.
RECURSIVE DamageReceived(_, _, _)
DamageReceived(records, targetId, soldierId) ==
  IF records = <<>> THEN 0
  ELSE (IF Head(records).targetId = targetId /\ Head(records).soldierId = soldierId
        THEN Head(records).damage ELSE 0)
       + DamageReceived(Tail(records), targetId, soldierId)

\* A side after a round: every unit has lost the damage of the records aimed
\* at it, once.
LostOnce(records, before, after) ==
  /\ after.currentHp
       = Max(0, before.currentHp - DamageReceived(records, before.id, NoId))
  /\ Len(after.soldiers) = Len(before.soldiers)
  /\ \A k \in 1..Len(before.soldiers) :
       StackPool(after.soldiers[k])
         = Max(0, StackPool(before.soldiers[k])
                    - DamageReceived(records, before.id, before.soldiers[k].id))

\* The log entries written while records were applied, in log order.
AppliedEntries(before, after) ==
  SelectSeq(SubSeq(after.battleLog, Len(before.battleLog) + 1, Len(after.battleLog)),
            LAMBDA entry : entry.message \in {"damage", "soldier-damage",
                                               "soldier-damage-lost"})

SameHp(before, after) ==
  /\ after.currentHp = before.currentHp
  /\ Len(after.soldiers) = Len(before.soldiers)
  /\ \A k \in 1..Len(before.soldiers) :
       /\ after.soldiers[k].currentHp = before.soldiers[k].currentHp
       /\ after.soldiers[k].quantity = before.soldiers[k].quantity

\* Nothing has been applied to this side: every unit is at its maximum.
Unharmed(character) ==
  /\ character.currentHp = character.maxHp
  /\ \A k \in 1..Len(character.soldiers) :
       character.soldiers[k].currentHp = character.soldiers[k].maxHp

\* C28: resolution applies every record of the round exactly once and in the
\* order the battle phase produced it (every unit loses the sum of the damage
\* aimed at it, no attacker has two records, and the resolution lines of the
\* log follow the records one for one); a step of any other operation, with
\* the records of finished rounds still stored, changes no HP and no
\* quantity, and a restart drops the records and leaves every unit of the
\* new battle unharmed.
C28_RecordsAppliedOnce ==
  [][ IF BattleStep
      THEN LET start == RoundStart(state)
               records == state'.calculatedDamages
               applied == AppliedEntries(state, state')
           IN /\ \A i, j \in 1..Len(records) :
                   i < j => records[i].attackerId # records[j].attackerId
              /\ LostOnce(records, start.player, state'.player)
              /\ LostOnce(records, start.enemy, state'.enemy)
              /\ Len(applied) = Len(records)
              /\ \A j \in 1..Len(records) :
                   applied[j].message = "damage"
                     <=> records[j].targetType = "character"
      ELSE IF lastOp' = "resetBattle"
      THEN /\ state'.calculatedDamages = <<>>
           /\ Unharmed(state'.player)
           /\ Unharmed(state'.enemy)
      ELSE /\ SameHp(state.player, state'.player)
           /\ SameHp(state.enemy, state'.enemy) ]_vars

\* The second round is over: the enemy's lead, untouched in the first round,
\* has lost the damage of the second round's records once and is alive.
C28_Witness ==
  /\ BattleRan
  /\ state.currentRound = 3
  /\ DamageReceived(state.calculatedDamages, EnemyId, NoId) >= 2
  /\ state.enemy.currentHp
       = state.enemy.maxHp - DamageReceived(state.calculatedDamages, EnemyId, NoId)
  /\ state.enemy.currentHp > 0
  /\ state.player.currentHp < state.player.maxHp

\* The unit the pending item heals: the player's first stack if it is alive,
\* the player's lead otherwise.
HealsFirstStack(s) ==
  Len(s.player.soldiers) > 0 /\ isSoldierAlive(s.player.soldiers[1])

\* C29: in a round with a pending item use the heal is applied before the
\* damage of the round is calculated or applied: the records are those of the
\* healed sides, and the healed unit ends the round at
\* max(0, min(maxHp, startHp + heal) - damage it receives this round); a
\* healed front unit of a stack that falls to 0 is removed from its stack.
C29_HealBeforeDamage ==
  [][ (state.pendingItemUse # NoItemUse /\ BattleStep) =>
        LET item == PendingItem(state)
            records == state'.calculatedDamages
            lead == state.player
        IN /\ records = calculateBattleDamages(RoundStart(state))
           /\ IF HealsFirstStack(state)
              THEN LET stack == lead.soldiers[1]
                       after == state'.player.soldiers[1]
                       healed == HealedHp(stack, item)
                       damage == DamageReceived(records, PlayerId, stack.id)
                   IN /\ StackPool(after)
                           = Max(0, healed + (stack.quantity - 1) * stack.maxHp
                                      - damage)
                      /\ IF damage < healed
                         THEN /\ after.currentHp = healed - damage
                              /\ after.quantity = stack.quantity
                         ELSE after.quantity < stack.quantity
              ELSE state'.player.currentHp
                     = Max(0, HealedHp(lead, item)
                                - DamageReceived(records, PlayerId, NoId)) ]_vars

\* In round 1 the player's lead, at full HP, took the potion (heal 2, cut
\* off at maxHp) and then 1 or 2 damage: it ends below maxHp.
C29_Witness ==
  /\ BattleRan
  /\ state.currentRound = 2
  /\ \E i \in 1..Len(state.battleLog) :
       state.battleLog[i].message = "item-used" /\ state.battleLog[i].round = 1
  /\ DamageReceived(state.calculatedDamages, PlayerId, NoId) \in 1..2
  /\ state.player.currentHp
       = state.player.maxHp - DamageReceived(state.calculatedDamages, PlayerId, NoId)

\* A successful decreasePreparationTimer step of the caller.
TickStep == lastOp' = "decreasePreparationTimer" /\ result' = "none"

\* The step appended the automatic-advance notice to the log.
NoticeAppended ==
  /\ Len(state'.battleLog) = Len(state.battleLog) + 1
  /\ state'.battleLog[Len(state'.battleLog)].message = "timer-expired"

\* C30 as stated: decreasePreparationTimer appends the automatic-advance
\* notice exactly on a tick that brings the countdown to 0 while action-taken
\* is false; once markPreparationActionTaken has been called in the round, no
\* tick of that round appends the notice.
C30_NoNoticeOnceMarked ==
  [][ TickStep =>
        /\ NoticeAppended
             <=> (state'.preparationTimer = 0 /\ ~state.preparationActionTaken)
        /\ fnIn.markedRound = state.currentRound => ~NoticeAppended ]_vars

\* C30: decreasePreparationTimer appends the automatic-advance notice exactly
\* on a tick that brings the countdown to 0 while action-taken is false, and
\* otherwise leaves the log as it is; once markPreparationActionTaken has been
\* called, no tick appends the notice for as long as the flag stays set, and
\* the flag is cleared only by startPreparationPhase, by the start of the next
\* round and by resetBattle.
C30_TimerNotice ==
  [][ /\ TickStep =>
          /\ NoticeAppended
               <=> (state'.preparationTimer = 0 /\ ~state.preparationActionTaken)
          /\ ~NoticeAppended => state'.battleLog = state.battleLog
          /\ state.preparationActionTaken => ~NoticeAppended
          /\ state'.preparationActionTaken = state.preparationActionTaken
      /\ (lastOp' = "markPreparationActionTaken" /\ result' = "none") =>
          state'.preparationActionTaken
      /\ (state.preparationActionTaken /\ ~state'.preparationActionTaken) =>
          \/ lastOp' \in {"startPreparationPhase", "resetBattle"}
          \/ lastOp' = "startBattlePhase"
               /\ state'.currentRound = state.currentRound + 1 ]_vars

\* The action was marked in this round and a tick has brought the countdown
\* to 0: no notice was written.
C30_Witness ==
  /\ lastOp = "decreasePreparationTimer"
  /\ result = "none"
  /\ fnIn.markedRound = state.currentRound
  /\ state.preparationActionTaken
  /\ state.preparationTimer = 0
  /\ \A i \in 1..Len(state.battleLog) : state.battleLog[i].message # "timer-expired"

\* C31: in every state a public operation returns, along any sequence of
\* calls from initializeBattle, the phase is never battle, and it is
\* resolution exactly when the battle is over.
C31_RestingPhases ==
  /\ state.currentPhase \in {"preparation", "resolution"}
  /\ state.currentPhase = "resolution" <=> state.isGameOver

\* A round has ended the battle and left it in phase resolution, with
\* operations rejected since.
C31_Witness ==
  /\ state.isGameOver
  /\ state.currentPhase = "resolution"
  /\ state.currentRound >= 2
  /\ lastOp = "startPreparationPhase"
  /\ result = "BATTLE_ALREADY_ENDED"

\* C32: in every reachable state in phase preparation with the battle not
\* over, startBattlePhase succeeds; an item selection that selectItem
\* accepted never makes the following battle phase fail.
C32_BattlePhaseSucceeds ==
  (state.currentPhase = "preparation" /\ ~state.isGameOver) =>
    startBattlePhase(state).err = "none"

\* C33: the death of a lead character is permanent within a battle: once a
\* lead's currentHp is 0 it is 0 in every later state reached by operations
\* other than resetBattle; no operation, the execution of a healing item
\* included, raises it above 0 again.
C33_DeadLeadStaysDead ==
  [][ lastOp' # "resetBattle" =>
        /\ state.player.currentHp = 0 => state'.player.currentHp = 0
        /\ state.enemy.currentHp = 0 => state'.enemy.currentHp = 0 ]_vars

\* C34: in every state reached from an initializeBattle with both sides
\* alive by operations other than resetBattle, a battle that is not over has
\* both sides alive (a living lead or a living stack each): a new round
\* never starts with a dead side.
C34_OpenBattleHasTwoSides ==
  ~state.isGameOver =>
    /\ isCharacterOrSoldiersAlive(state.player)
    /\ isCharacterOrSoldiersAlive(state.enemy)

\* The third round is about to start: the player's lead is dead and the side
\* lives on in a stack, the enemy has lost its stacks and lives on in its lead.
C34_Witness ==
  /\ BattleRan
  /\ ~state.isGameOver
  /\ state.currentRound = 3
  /\ DeadLeadLivingStack(state.player)
  /\ isCharacterAlive(state.enemy)
  /\ ~HasLivingStack(state.enemy)

\* C35: for a stack with quantity >= 1 and 1 <= currentHp <= maxHp,
\* applySoldierDamage with damage d lowers the pool
\* (quantity - 1) * maxHp + currentHp by exactly min(d, pool), an emptied
\* stack counting as pool 0; applying d1 and then d2 yields the same stack
\* as applying d1 + d2 in one hit.
C35_PoolArithmetic ==
  LET sd == fnIn.soldier
      pool == (sd.quantity - 1) * sd.maxHp + sd.currentHp
  IN /\ lastOp # "none" =>
          /\ sd.quantity >= 1 /\ 1 <= sd.currentHp /\ sd.currentHp <= sd.maxHp
          /\ StackPool(fnOut.first) = pool - Min(fnIn.first, pool)
          /\ fnOut.first.quantity = 0 <=> fnIn.first >= pool
          /\ fnOut.first.quantity > 0 =>
               1 <= fnOut.first.currentHp /\ fnOut.first.currentHp <= sd.maxHp
     /\ lastOp = "applySoldierDamage-whole" =>
          /\ StackPool(fnOut.whole) = pool - Min(fnIn.first + fnIn.second, pool)
          /\ fnOut.second = fnOut.whole

\* Two hits that each remove a unit and leave a wounded one at the front:
\* 2 units are left of a stack of 3, then 1, the same as after one hit.
C35_Witness ==
  /\ lastOp = "applySoldierDamage-whole"
  /\ fnIn.soldier.quantity = 3
  /\ fnIn.first > fnIn.soldier.currentHp
  /\ fnOut.first.quantity = 2
  /\ fnOut.first.currentHp < fnIn.soldier.maxHp
  /\ fnIn.second > fnOut.first.currentHp
  /\ fnOut.second.quantity = 1
  /\ fnOut.second.currentHp < fnIn.soldier.maxHp
  /\ fnOut.whole = fnOut.second

\* What one step does to the quantity of an item it keeps.
QuantityStep(item, after, executed) ==
  /\ after.quantity >= 0
  /\ after.quantity <= item.quantity
  /\ after.quantity = IF executed THEN item.quantity - 1 ELSE item.quantity

\* The step is a round whose battle phase executes the selection of the
\* item at position i.
ExecutesItem(i) ==
  /\ BattleStep
  /\ state.pendingItemUse # NoItemUse
  /\ i = findIndex(state.playerItems, state.pendingItemUse.itemId)

\* C36 as stated: across any sequence of operations, a restart included, an
\* item's quantity never increases and never goes below 0; it drops by
\* exactly 1 in each round whose battle phase executes the selected item and
\* is unchanged by every other operation.
C36_QuantityNeverRises ==
  [][ \A i \in 1..Len(state.playerItems), j \in 1..Len(state'.playerItems) :
        state'.playerItems[j].id = state.playerItems[i].id =>
          QuantityStep(state.playerItems[i], state'.playerItems[j],
                       ExecutesItem(i)) ]_vars

\* C36: between restarts an item's quantity never increases and never goes
\* below 0; it drops by exactly 1 in each round whose battle phase executes
\* the selected item and is unchanged by every other operation and every
\* other round; a restart replaces the inventory by the default one at its
\* full supply.
C36_ItemQuantity ==
  [][ IF lastOp' = "resetBattle"
      THEN /\ Len(state'.playerItems) = Len(DEFAULT_ITEMS)
           /\ \A i \in 1..Len(DEFAULT_ITEMS) :
                state'.playerItems[i].quantity = DEFAULT_ITEMS[i].quantity
      ELSE /\ Len(state'.playerItems) = Len(state.playerItems)
           /\ \A i \in 1..Len(state.playerItems) :
                /\ state'.playerItems[i].id = state.playerItems[i].id
                /\ QuantityStep(state.playerItems[i], state'.playerItems[i],
                                ExecutesItem(i)) ]_vars

\* The potion with a supply of 2 has been used in one round and is left
\* with 1; the other potion has not been used, and a round has passed since.
C36_Witness ==
  /\ BattleRan
  /\ state.currentRound >= 3
  /\ state.pendingItemUse = NoItemUse
  /\ Len(state.playerItems) = 2
  /\ state.playerItems[1].quantity = 1
  /\ state.playerItems[2].quantity = 1

\* A round was run to its end by the last call.
RoundCompleted ==
  /\ lastOp' \in {"startBattlePhase", "autoExecuteBattlePhase", "startResolutionPhase"}
  /\ result' = "none"

\* C37: currentRound is always >= 1; it increases by exactly 1 when a round
\* completes without ending the battle, is set to 1 by resetBattle, and is
\* left unchanged by every other operation, a round that ends the battle
\* included.
C37_RoundCounter ==
  [][ /\ state.currentRound >= 1
      /\ state'.currentRound >= 1
      /\ state'.currentRound =
           IF lastOp' = "resetBattle" THEN 1
           ELSE IF RoundCompleted /\ ~state'.isGameOver THEN state.currentRound + 1
           ELSE state.currentRound ]_vars

\* Three rounds have completed without ending the battle: the fourth round
\* is in preparation.
C37_Witness ==
  /\ BattleRan
  /\ ~state.isGameOver
  /\ state.currentRound = 4
  /\ state.currentPhase = "preparation"

GameErrors ==
  {"INVALID_PHASE", "BATTLE_ALREADY_ENDED", "INVALID_ACTION", "INSUFFICIENT_ITEMS",
   "CHARACTER_DEAD"}

\* C38: every operation that fails (InvalidPhase, BattleAlreadyEnded,
\* InvalidAction, InsufficientItems, CharacterDead) leaves the battle state
\* exactly as it was before the call, a startBattlePhase that fails part-way
\* while executing the pending item included: the caller's state is the
\* same, and the state passed to the call has not been written to.
C38_FailureLeavesState ==
  [][ /\ result' \in GameErrors \cup {"none"}
      /\ result' \in GameErrors =>
           /\ state' = state
           /\ inputAfter(lastOp', state) = state ]_vars

\* startBattlePhase has failed while executing the pending item: the phase
\* is preparation, the selection and the item are as they were, and the log
\* has no line of a battle phase of this round.
C38_Witness ==
  /\ lastOp = "startBattlePhase"
  /\ result = "INVALID_ACTION"
  /\ state.currentPhase = "preparation"
  /\ state.pendingItemUse # NoItemUse
  /\ PendingItem(state).quantity = 1
  /\ PendingItem(state).heal = 0
  /\ \A i \in 1..Len(state.battleLog) :
       state.battleLog[i].phase = "battle" => state.battleLog[i].round < state.currentRound

\* C39: the unit-by-unit loop implementation and the closed-form
\* implementation of applySoldierDamage return the same stack for every
\* input stack with quantity >= 0, currentHp = 0 when quantity = 0 and
\* 1 <= currentHp <= maxHp otherwise, and every damage d >= 0.
C39_LoopEqualsClosedForm ==
  lastOp = "applySoldierDamage-closed" => fnOut.loop = fnOut.closed

\* 80 damage on 5 units of 30 HP: both implementations leave 3 units with
\* 10 HP at the front.
C39_Witness ==
  /\ lastOp = "applySoldierDamage-closed"
  /\ fnIn.soldier.maxHp = 30 /\ fnIn.soldier.quantity = 5 /\ fnIn.damage = 80
  /\ fnOut.loop.quantity = 3 /\ fnOut.loop.currentHp = 10
  /\ fnOut.closed.quantity = 3 /\ fnOut.closed.currentHp = 10

====
